---- MODULE Spec2Model ----
(***************************************************************************)
(* Model of the stock API backend: the Alpha Vantage service               *)
(* (src/services/AlphaVantageService.js), the stock controller and the     *)
(* two mongoose models (src/unnamed/part_001).                             *)
(*                                                                         *)
(* JavaScript values are tagged records: Str(s), Num(n), Obj(keys, val),   *)
(* Null, Undef.  An object keeps its keys in insertion order (keys) beside *)
(* the mapping (val), because the code iterates Object.keys/Object.entries.*)
(* Prices are fixed-point numbers in hundredths; NaN is a sentinel.        *)
(* Instants (Date.getTime()) are seconds on a monotone calendar scale.     *)
(***************************************************************************)
EXTENDS Integers, Sequences, FiniteSets, TLC

VARIABLES
  envApiKey,    \* process.env.ALPHA_VANTAGE_API_KEY
  clock,        \* ticks of the wall clock read by new Date()
  stockStore,   \* the StockData collection: sequence of documents
  dailyStore,   \* the DailyStockData collection: (symbol, date) -> record
  last,         \* the last operation: request, upstream response, outcome
  requests,     \* the HTTP requests the server is handling, each with its position
  process       \* the Node process: NODE_ENV, the server, the exit code

vars == <<envApiKey, clock, stockStore, dailyStore, last, requests, process>>

----------------------------------------------------------------------------
(* JavaScript values *)

Str(s) == [t |-> "str", s |-> s]
Num(n) == [t |-> "num", n |-> n]
Null == [t |-> "null"]
Undef == [t |-> "undef"]
Obj(keys, val) == [t |-> "obj", keys |-> keys, val |-> val]
EmptyObj == Obj(<<>>, <<>>)

NaN == -999999999

\* !!v
Truthy(v) ==
  CASE v.t = "str" -> v.s # ""
    [] v.t = "num" -> v.n # 0 /\ v.n # NaN
    [] v.t = "obj" -> TRUE
    [] OTHER -> FALSE

\* a || b
Or(a, b) == IF Truthy(a) THEN a ELSE b

\* o[k] for a non-nullish o (a property read of a string or number primitive
\* by one of the names used here is undefined)
Get(o, k) == IF o.t = "obj" /\ k \in DOMAIN o.val THEN o.val[k] ELSE Undef

\* typeof v === 'object' (null included)
TypeofObject(v) == v.t \in {"obj", "null"}

\* String(v), as `${v}` and new Error(v) compute it
ToStr(v) ==
  CASE v.t = "str" -> v.s
    [] v.t = "num" -> IF v.n = NaN THEN "NaN" ELSE ToString(v.n)
    [] v.t = "obj" -> "[object Object]"
    [] v.t = "null" -> "null"
    [] OTHER -> "undefined"

----------------------------------------------------------------------------
(* Strings *)

Char(s, i) == SubSeq(s, i, i)

\* String.prototype.includes
Includes(s, sub) ==
  \E i \in 1..(Len(s) - Len(sub) + 1) : SubSeq(s, i, i + Len(sub) - 1) = sub

\* the lower-case letter of each upper-case letter, and the reverse
LowerOf ==
  [c \in {Char("ABCDEFGHIJKLMNOPQRSTUVWXYZ", i) : i \in 1..26} |->
     Char("abcdefghijklmnopqrstuvwxyz",
          CHOOSE i \in 1..26 : Char("ABCDEFGHIJKLMNOPQRSTUVWXYZ", i) = c)]
UpperOf ==
  [c \in {Char("abcdefghijklmnopqrstuvwxyz", i) : i \in 1..26} |->
     Char("ABCDEFGHIJKLMNOPQRSTUVWXYZ",
          CHOOSE i \in 1..26 : Char("abcdefghijklmnopqrstuvwxyz", i) = c)]

LowerChar(c) == IF c \in DOMAIN LowerOf THEN LowerOf[c] ELSE c
UpperChar(c) == IF c \in DOMAIN UpperOf THEN UpperOf[c] ELSE c

RECURSIVE ToLowerCase(_)
ToLowerCase(s) ==
  IF Len(s) = 0 THEN "" ELSE LowerChar(Char(s, 1)) \o ToLowerCase(SubSeq(s, 2, Len(s)))

RECURSIVE ToUpperCase(_)
ToUpperCase(s) ==
  IF Len(s) = 0 THEN "" ELSE UpperChar(Char(s, 1)) \o ToUpperCase(SubSeq(s, 2, Len(s)))

RECURSIVE TrimStart(_)
TrimStart(s) ==
  IF Len(s) > 0 /\ Char(s, 1) = " " THEN TrimStart(SubSeq(s, 2, Len(s))) ELSE s

RECURSIVE TrimEnd(_)
TrimEnd(s) ==
  IF Len(s) > 0 /\ Char(s, Len(s)) = " " THEN TrimEnd(SubSeq(s, 1, Len(s) - 1)) ELSE s

Trim(s) == TrimEnd(TrimStart(s))

\* the value of each decimal digit
DigitOf ==
  [c \in {Char("0123456789", i) : i \in 1..10} |->
     (CHOOSE i \in 1..10 : Char("0123456789", i) = c) - 1]
IsDigit(c) == c \in DOMAIN DigitOf
DigitVal(c) == DigitOf[c]

\* the length of the longest run of digits of s starting at position i
RECURSIVE DigitRun(_, _)
DigitRun(s, i) ==
  IF i <= Len(s) /\ IsDigit(Char(s, i)) THEN 1 + DigitRun(s, i + 1) ELSE 0

\* the value of the digits s[i..i+n-1]
RECURSIVE DigitsVal(_, _, _)
DigitsVal(s, i, n) ==
  IF n = 0 THEN 0 ELSE DigitsVal(s, i, n - 1) * 10 + DigitVal(Char(s, i + n - 1))

\* AllDigits(s, i, n): s[i..i+n-1] exists and is all digits
AllDigits(s, i, n) == i + n - 1 <= Len(s) /\ \A j \in i..(i + n - 1) : IsDigit(Char(s, j))

\* the position after an optional sign of s, and whether the sign is "-"
SignEnd(s) == IF Len(s) > 0 /\ Char(s, 1) \in {"-", "+"} THEN 2 ELSE 1
IsNegative(s) == Len(s) > 0 /\ Char(s, 1) = "-"

\* the number of fraction digits of s after a "." at position q
FractionRun(s, q) ==
  IF q <= Len(s) /\ Char(s, q) = "." THEN DigitRun(s, q + 1) ELSE 0

\* the first two of the m fraction digits that start at position q
Hundredths(s, q, m) ==
  (IF m >= 1 THEN DigitVal(Char(s, q)) ELSE 0) * 10
  + (IF m >= 2 THEN DigitVal(Char(s, q + 1)) ELSE 0)

\* the magnitude of n integer digits at p followed by m fraction digits
Magnitude(s, p, n, m) ==
  IF n = 0 /\ m = 0 THEN NaN
  ELSE DigitsVal(s, p, n) * 100 + Hundredths(s, p + n + 1, m)

Signed(neg, mag) == IF mag = NaN THEN NaN ELSE IF neg THEN 0 - mag ELSE mag

ParseFloatDigits(s, p, n) ==
  Signed(IsNegative(s), Magnitude(s, p, n, FractionRun(s, p + n)))

ParseFloatTrimmed(s) == ParseFloatDigits(s, SignEnd(s), DigitRun(s, SignEnd(s)))

\* parseFloat(string): leading blanks, an optional sign, digits, an optional
\* fraction; the longest such prefix; NaN when it holds no digit.  The value
\* is in hundredths (fraction digits past the second are cut off).
ParseFloatStr(str) == ParseFloatTrimmed(TrimStart(str))

\* parseFloat(v)
ParseFloat(v) ==
  CASE v.t = "str" -> ParseFloatStr(v.s)
    [] v.t = "num" -> v.n
    [] OTHER -> NaN

ParseIntDigits(s, p, n) ==
  Signed(IsNegative(s), IF n = 0 THEN NaN ELSE DigitsVal(s, p, n))

ParseIntTrimmed(s) == ParseIntDigits(s, SignEnd(s), DigitRun(s, SignEnd(s)))

\* parseInt(string, 10): leading blanks, an optional sign, digits
ParseIntStr(str) == ParseIntTrimmed(TrimStart(str))

\* parseInt(v, 10); a number is in hundredths and parses to its integer part
ParseInt(v) ==
  CASE v.t = "str" -> ParseIntStr(v.s)
    [] v.t = "num" -> IF v.n = NaN THEN NaN ELSE v.n \div 100
    [] OTHER -> NaN

----------------------------------------------------------------------------
(* Dates *)

\* seconds on a calendar scale that keeps the order of instants
Instant(y, mo, d, h, mi, sec) ==
  ((((y - 2000) * 12 + (mo - 1)) * 31 + (d - 1)) * 24 + h) * 3600 + mi * 60 + sec

\* new Date(string).getTime() for the forms YYYY-MM-DD and
\* YYYY-MM-DD[ T]HH:MM:SS[.mmm][Z]; NaN (Invalid Date) otherwise.
\* The process time zone is taken to be UTC.
DateParse(s) ==
  LET dateOk == /\ Len(s) >= 10
                /\ AllDigits(s, 1, 4) /\ Char(s, 5) = "-"
                /\ AllDigits(s, 6, 2) /\ Char(s, 8) = "-"
                /\ AllDigits(s, 9, 2)
      y == DigitsVal(s, 1, 4)
      mo == DigitsVal(s, 6, 2)
      d == DigitsVal(s, 9, 2)
      rangeOk == y >= 2000 /\ y <= 2060 /\ mo \in 1..12 /\ d \in 1..31
      timeOk == /\ Len(s) >= 19
                /\ Char(s, 11) \in {" ", "T"}
                /\ AllDigits(s, 12, 2) /\ Char(s, 14) = ":"
                /\ AllDigits(s, 15, 2) /\ Char(s, 17) = ":"
                /\ AllDigits(s, 18, 2)
                /\ SubSeq(s, 20, Len(s)) \in {"", "Z", ".000Z", ".000"}
      h == DigitsVal(s, 12, 2)
      mi == DigitsVal(s, 15, 2)
      sec == DigitsVal(s, 18, 2)
  IN IF dateOk /\ rangeOk /\ Len(s) = 10 THEN Instant(y, mo, d, 0, 0, 0)
     ELSE IF dateOk /\ rangeOk /\ timeOk /\ h <= 23 /\ mi <= 59 /\ sec <= 59
       THEN Instant(y, mo, d, h, mi, sec)
     ELSE NaN

\* new Date(v).getTime() for a JavaScript value
DateOf(v) == IF v.t = "str" THEN DateParse(v.s) ELSE NaN

\* new Date() at clock tick c
NowInstant(c) == Instant(2024, 1, 1, 0, 0, c)

\* new Date().toISOString() at clock tick c
NowISOString(c) == "2024-01-01T00:00:0" \o ToString(c) \o ".000Z"

\* a >= b and a <= b on Date objects: false when either is Invalid Date
DateGe(a, b) == a # NaN /\ b # NaN /\ a >= b
DateLe(a, b) == a # NaN /\ b # NaN /\ a <= b

----------------------------------------------------------------------------
(* Results of calls that may throw *)

Ok(v) == [ok |-> TRUE, v |-> v, msg |-> ""]
Throw(m) == [ok |-> FALSE, v |-> Undef, msg |-> m]

Range(seq) == {seq[i] : i \in 1..Len(seq)}

NoKey == ""

\* the predicates on keys of transformData
IsIntradayMetaKey(key) ==
  \/ Includes(ToLowerCase(key), "meta")
  \/ key = "Meta Data"
  \/ key = "MetaData"

IsIntradayTimeSeriesKey(key) ==
  \/ Includes(ToLowerCase(key), "time series")
  \/ Includes(ToLowerCase(key), "timeseries")
  \/ Includes(ToLowerCase(key), "time_series")

\* the predicates on keys of transformDailyData
IsDailyMetaKey(key) ==
  \/ Includes(ToLowerCase(key), "meta")
  \/ Includes(ToLowerCase(key), "information")

IsDailyTimeSeriesKey(key) ==
  \/ Includes(ToLowerCase(key), "time series")
  \/ Includes(ToLowerCase(key), "daily")

\* the four predicates by name
KeyIs(kind, key) ==
  CASE kind = "intradayMeta" -> IsIntradayMetaKey(key)
    [] kind = "intradayTimeSeries" -> IsIntradayTimeSeriesKey(key)
    [] kind = "dailyMeta" -> IsDailyMetaKey(key)
    [] kind = "dailyTimeSeries" -> IsDailyTimeSeriesKey(key)

\* Object.keys(data).find(predicate): the first key, in key order, that
\* satisfies the predicate of the kind; undefined (NoKey, falsy like
\* undefined) when none does
FindKey(keys, kind) ==
  IF \E i \in 1..Len(keys) : KeyIs(kind, keys[i])
    THEN keys[CHOOSE i \in 1..Len(keys) :
                KeyIs(kind, keys[i]) /\ \A j \in 1..(i - 1) : ~KeyIs(kind, keys[j])]
    ELSE NoKey

\* the keys of the entries the two loops over Object.entries(timeSeries) keep,
\* in insertion order (the key order of the object they build)
KeptOrder(timeSeries) ==
  IF timeSeries.t # "obj" THEN <<>>
  ELSE LET Kept(k) == Truthy(timeSeries.val[k]) /\ TypeofObject(timeSeries.val[k])
       IN SelectSeq(timeSeries.keys, Kept)

----------------------------------------------------------------------------
(* Response Normalizer: transformData (intraday) *)

\* a variant of IntradayPoint that stores each field as the number it parses to
IntradayPointParsed(values) ==
     ("1. open"   :> Num(ParseFloat(Or(Get(values, "1. open"), Get(values, "open")))))
  @@ ("2. high"   :> Num(ParseFloat(Or(Get(values, "2. high"), Get(values, "high")))))
  @@ ("3. low"    :> Num(ParseFloat(Or(Get(values, "3. low"), Get(values, "low")))))
  @@ ("4. close"  :> Num(ParseFloat(Or(Get(values, "4. close"), Get(values, "close")))))
  @@ ("5. volume" :> Num(ParseFloat(Or(Get(values, "5. volume"), Get(values, "volume")))))

\* one record of the intraday series: the five canonical keys
IntradayPoint(values) ==
     ("1. open"   :> Or(Or(Or(Get(values, "1. open"), Get(values, "open")), Get(values, "OPEN")), Str("")))
  @@ ("2. high"   :> Or(Or(Or(Get(values, "2. high"), Get(values, "high")), Get(values, "HIGH")), Str("")))
  @@ ("3. low"    :> Or(Or(Or(Get(values, "3. low"), Get(values, "low")), Get(values, "LOW")), Str("")))
  @@ ("4. close"  :> Or(Or(Or(Get(values, "4. close"), Get(values, "close")), Get(values, "CLOSE")), Str("")))
  @@ ("5. volume" :> Or(Or(Or(Get(values, "5. volume"), Get(values, "volume")), Get(values, "VOLUME")), Str("")))

\* a variant of IntradayTimeSeries that skips no entry
IntradayTimeSeriesUnskipped(timeSeries) ==
  [ts \in Range(timeSeries.keys) |-> IntradayPoint(timeSeries.val[ts])]

\* the loop over Object.entries(timeSeries): an entry that is falsy or not an
\* object is skipped, every other entry is kept
IntradayTimeSeries(timeSeries) ==
  [ts \in {k \in Range(timeSeries.keys) :
             Truthy(timeSeries.val[k]) /\ TypeofObject(timeSeries.val[k])}
     |-> IntradayPoint(timeSeries.val[ts])]

IntradayMetaData(metaData, now) ==
  [information   |-> Or(Or(Get(metaData, "1. Information"), Get(metaData, "Information")), Str("")),
   symbol        |-> Or(Or(Get(metaData, "2. Symbol"), Get(metaData, "Symbol")), Str("")),
   lastRefreshed |-> Or(Or(Get(metaData, "3. Last Refreshed"), Get(metaData, "Last Refreshed")),
                        Str(NowISOString(now))),
   interval      |-> Or(Or(Get(metaData, "4. Interval"), Get(metaData, "Interval")), Str("")),
   outputSize    |-> Or(Or(Get(metaData, "5. Output Size"), Get(metaData, "Output Size")), Str("Compact")),
   timeZone      |-> Or(Or(Get(metaData, "6. Time Zone"), Get(metaData, "Time Zone")), Str("US/Eastern")),
   dataType      |-> Str("intraday")]

\* transformData after the check of the two sections
IntradayFromSections(metaData, timeSeries, now) ==
  IF ~Truthy(metaData) THEN Throw("Invalid data format: Meta Data is empty")
  ELSE IF ~Truthy(timeSeries) \/ ~TypeofObject(timeSeries)
    THEN Throw("Invalid data format: Time Series data is invalid or empty")
  ELSE Ok([metaData   |-> IntradayMetaData(metaData, now),
           timeSeries |-> IntradayTimeSeries(timeSeries),
           order      |-> KeptOrder(timeSeries)])

\* transformData after the search of metaKey and timeSeriesKey
IntradayFromKeys(data, metaKey, timeSeriesKey, now) ==
  IF metaKey = NoKey THEN Throw("Invalid data format: Missing Meta Data")
  ELSE IF timeSeriesKey = NoKey THEN Throw("Invalid data format: Missing Time Series Data")
  ELSE IntradayFromSections(data.val[metaKey], data.val[timeSeriesKey], now)

\* the body of transformData's try block; a thrown Error is Throw(message)
transformDataTry(data, now) ==
  IF ~Truthy(data) \/ ~TypeofObject(data)
    THEN Throw("Invalid data format: Expected an object")
  ELSE IF Truthy(Get(data, "Error Message"))
    THEN Throw(ToStr(Get(data, "Error Message")))
  ELSE IF Truthy(Get(data, "Note"))
    THEN Throw("API rate limit exceeded. Please try again later.")
  ELSE IntradayFromKeys(data, FindKey(data.keys, "intradayMeta"),
                         FindKey(data.keys, "intradayTimeSeries"), now)

\* a catch clause that rethrows new Error(prefix + error.message)
Rethrow(r, prefix) == IF r.ok THEN r ELSE Throw(prefix \o r.msg)

\* transformData(data): the catch clause rethrows with a prefix
transformData(data, now) == Rethrow(transformDataTry(data, now), "Failed to transform data: ")

----------------------------------------------------------------------------
(* Response Normalizer: transformDailyData *)

\* one record of the daily series; parseFloat and parseInt never throw, so
\* the catch clause around the assignment is never entered
DailyPoint(values) ==
  [open     |-> ParseFloat(Or(Or(Get(values, "1. open"), Get(values, "open")), Num(0))),
   high     |-> ParseFloat(Or(Or(Get(values, "2. high"), Get(values, "high")), Num(0))),
   low      |-> ParseFloat(Or(Or(Get(values, "3. low"), Get(values, "low")), Num(0))),
   close    |-> ParseFloat(Or(Or(Get(values, "4. close"), Get(values, "close")), Num(0))),
   volume   |-> ParseInt(Or(Or(Get(values, "5. volume"), Get(values, "volume")), Num(0))),
   adjustedClose |->
     ParseFloat(Or(Or(Or(Or(Get(values, "5. adjusted close"), Get(values, "adjusted close")),
                         Get(values, "4. close")), Get(values, "close")), Num(0))),
   dividendAmount |->
     ParseFloat(Or(Or(Get(values, "7. dividend amount"), Get(values, "dividend amount")), Num(0))),
   splitCoefficient |->
     ParseFloat(Or(Or(Get(values, "8. split coefficient"), Get(values, "split coefficient")), Num(100)))]

\* the loop over Object.entries(timeSeries); Object.entries of a primitive
\* yields no object-valued entry
DailyTimeSeries(timeSeries) ==
  IF timeSeries.t # "obj" THEN <<>>
  ELSE [date \in {k \in Range(timeSeries.keys) :
                    Truthy(timeSeries.val[k]) /\ TypeofObject(timeSeries.val[k])}
          |-> DailyPoint(timeSeries.val[date])]

DailyMetaData(metadata, symbol, now) ==
  [information   |-> Or(Or(Get(metadata, "1. Information"), Get(metadata, "Information")),
                        Str("Daily Time Series")),
   symbol        |-> Or(Or(Get(metadata, "2. Symbol"), Get(metadata, "Symbol")), Str(symbol)),
   lastRefreshed |-> Or(Or(Get(metadata, "3. Last Refreshed"), Get(metadata, "Last Refreshed")),
                        Str(NowISOString(now))),
   outputSize    |-> Or(Or(Get(metadata, "4. Output Size"), Get(metadata, "Output Size")), Str("Compact")),
   timeZone      |-> Or(Or(Get(metadata, "5. Time Zone"), Get(metadata, "Time Zone")), Str("US/Eastern")),
   dataType      |-> Str("daily")]

\* transformDailyData after the check of the two sections
DailyFromSections(metadata, timeSeries, symbol, now) ==
  IF ~Truthy(metadata) \/ ~Truthy(timeSeries)
    THEN Throw("Invalid daily data format: Missing required fields")
  ELSE Ok([metaData   |-> DailyMetaData(metadata, symbol, now),
           timeSeries |-> DailyTimeSeries(timeSeries),
           order      |-> KeptOrder(timeSeries)])

\* transformDailyData after the search of metaKey and timeSeriesKey
DailyFromKeys(data, metaKey, timeSeriesKey, symbol, now) ==
  IF metaKey = NoKey \/ timeSeriesKey = NoKey
    THEN Throw("Invalid data format: Missing Meta Data or Time Series in daily data")
  ELSE DailyFromSections(data.val[metaKey], data.val[timeSeriesKey], symbol, now)

\* transformDailyData(data, symbol), called with a non-empty object
transformDailyData(data, symbol, now) ==
  DailyFromKeys(data, FindKey(data.keys, "dailyMeta"),
                FindKey(data.keys, "dailyTimeSeries"), symbol, now)

----------------------------------------------------------------------------
(* Upstream Client and the three fetch operations of AlphaVantageService *)

DefaultApiKey == "LF4QX2NVP67O0K45"

\* constructor(apiKey): this.apiKey = apiKey || default
ServiceKey(apiKey) == IF apiKey # "" THEN apiKey ELSE DefaultApiKey

IsDemoKey(apiKey) == apiKey = "demo" \/ Includes(ToLowerCase(apiKey), "demo")

MissingKeyMessage ==
  "Alpha Vantage API key is not configured. Please set the ALPHA_VANTAGE_API_KEY environment variable."

DemoKeyMessage ==
  "The demo API key is for demonstration purposes only and has limited functionality. Please use a valid API key for full access to Alpha Vantage data."

\* the timeout option of the requests of getDailyData and getIntradayData,
\* and the one axios uses for getHistoricalData, which sets none (0: no
\* timeout)
RequestTimeout == 15000
NoTimeout == 0

\* the promise of axios.get settles after a wait of waited ms: the upstream
\* answers or the connection fails (at once), or a timeout is set and has
\* elapsed
Settles(resp, timeout, waited) ==
  resp.net = "timeout" => (timeout > 0 /\ waited >= timeout)

\* axios.get with validateStatus: status >= 200 && status < 500, once it
\* settles.  resp.net is "ok" (a response arrived), "timeout" (the upstream
\* never answers) or "down" (the connection failed).
AxiosGet(resp, timeout) ==
  CASE resp.net = "timeout" -> Throw("timeout of " \o ToString(timeout) \o "ms exceeded")
    [] resp.net = "down" -> Throw("connect ECONNREFUSED")
    [] resp.status >= 200 /\ resp.status < 500 -> Ok(resp)
    [] OTHER -> Throw("Request failed with status code " \o ToString(resp.status))

\* note.includes('demo') || note.includes('rate limit')
NoteIsRateLimit(note) == Includes(note, "demo") \/ Includes(note, "rate limit")

\* the message built when response.status !== 200
StatusErrorMessage(resp) ==
  IF Truthy(resp.data) /\ Truthy(Get(resp.data, "Error Message"))
    THEN ToStr(Get(resp.data, "Error Message"))
    ELSE "API request failed with status " \o ToString(resp.status) \o ": " \o resp.statusText

NoSeries == [metaData |-> <<>>, timeSeries |-> <<>>, order |-> <<>>]

\* the outcome of a fetch operation: a series or a thrown Error; mock tells
\* whether getMockIntradayData was called, sent whether a request was issued
Returned(series, sent) ==
  [ok |-> TRUE, data |-> series, error |-> "", mock |-> FALSE, sent |-> sent]
Thrown(message, mock, sent) ==
  [ok |-> FALSE, data |-> NoSeries, error |-> message, mock |-> mock, sent |-> sent]

\* this.getMockIntradayData(symbol, interval): the class defines no such
\* method, so the call throws a TypeError
getMockIntradayData(symbol, interval) ==
  Throw("this.getMockIntradayData is not a function")

\* a result of the try block, with whether getMockIntradayData was called
WithMock(r, mock) == [ok |-> r.ok, v |-> r.v, msg |-> r.msg, mock |-> mock]

\* the outcome of `return this.getMockIntradayData(symbol, interval)`
ReturnMock(symbol, interval) == WithMock(getMockIntradayData(symbol, interval), TRUE)

NoMock(r) == WithMock(r, FALSE)

\* the end of a fetch method: the try block's value is returned, the catch
\* clause rethrows new Error(prefix + error.message)
Outcome(r, prefix) ==
  IF r.ok THEN [Returned(r.v, TRUE) EXCEPT !.mock = r.mock]
  ELSE Thrown(prefix \o r.msg, r.mock, TRUE)

\* a variant of OrTransformError that answers a failing transformDailyData
\* with the fallback of the intraday path
OrTransformFallback(t) == IF t.ok THEN t ELSE Ok(NoSeries)

\* the inner try of getDailyData: a failing transformDailyData is rethrown
\* as new Error('Error transforming API response')
OrTransformError(t) == IF t.ok THEN t ELSE Throw("Error transforming API response")

\* getDailyData: the statements of the try block after the request
DailyAfterResponse(resp, symbol, now) ==
  IF Truthy(resp.data) /\ Truthy(Get(resp.data, "Note")) /\ Get(resp.data, "Note").t # "str"
    THEN NoMock(Throw("note.includes is not a function"))
  ELSE IF Truthy(resp.data) /\ Truthy(Get(resp.data, "Note"))
          /\ NoteIsRateLimit(Get(resp.data, "Note").s)
    THEN NoMock(Throw("Rate limit exceeded"))
  ELSE IF resp.status # 200 THEN NoMock(Throw(StatusErrorMessage(resp)))
  ELSE IF ~Truthy(resp.data) THEN NoMock(Throw("No data received from Alpha Vantage API"))
  ELSE IF resp.data.t = "obj" /\ Len(resp.data.keys) = 0
    THEN NoMock(Throw("Empty response from Alpha Vantage API"))
  ELSE NoMock(OrTransformError(transformDailyData(resp.data, symbol, now)))

\* a fetch method after its check of the key: the request, then the rest
AfterRequest(got, r, prefix) ==
  IF ~got.ok THEN Thrown(prefix \o got.msg, FALSE, TRUE) ELSE Outcome(r, prefix)

\* getDailyData(symbol, outputSize) of a service built with apiKey
getDailyData(apiKey, symbol, resp, now) ==
  IF ServiceKey(apiKey) = ""
    THEN Thrown("Failed to get daily data: " \o MissingKeyMessage, FALSE, FALSE)
  ELSE IF IsDemoKey(ServiceKey(apiKey))
    THEN Thrown("Failed to get daily data: " \o DemoKeyMessage, FALSE, FALSE)
  ELSE AfterRequest(AxiosGet(resp, RequestTimeout), DailyAfterResponse(resp, symbol, now),
                    "Failed to get daily data: ")

\* the fallback of getIntradayData when transformData throws
OrMock(t, symbol, interval) == IF t.ok THEN NoMock(t) ELSE ReturnMock(symbol, interval)

\* getIntradayData: the statements of the try block after the request
IntradayAfterResponse(resp, symbol, interval, now) ==
  IF Truthy(resp.data) /\ Truthy(Get(resp.data, "Note")) /\ Get(resp.data, "Note").t # "str"
    THEN NoMock(Throw("note.includes is not a function"))
  ELSE IF Truthy(resp.data) /\ Truthy(Get(resp.data, "Note"))
          /\ NoteIsRateLimit(Get(resp.data, "Note").s)
    THEN ReturnMock(symbol, interval)
  ELSE IF resp.status # 200
    THEN IF resp.status >= 400 /\ resp.status < 500
           THEN ReturnMock(symbol, interval)
           ELSE NoMock(Throw(StatusErrorMessage(resp)))
  ELSE IF ~Truthy(resp.data) THEN ReturnMock(symbol, interval)
  ELSE IF resp.data.t = "obj" /\ Len(resp.data.keys) = 0 THEN ReturnMock(symbol, interval)
  ELSE OrMock(transformData(resp.data, now), symbol, interval)

\* getIntradayData(symbol, interval) of a service built with apiKey
getIntradayData(apiKey, symbol, interval, resp, now) ==
  IF ServiceKey(apiKey) = ""
    THEN Thrown("Failed to get intraday data: " \o MissingKeyMessage, FALSE, FALSE)
  ELSE IF IsDemoKey(ServiceKey(apiKey))
    THEN Thrown("Failed to get intraday data: " \o DemoKeyMessage, FALSE, FALSE)
  ELSE AfterRequest(AxiosGet(resp, RequestTimeout), IntradayAfterResponse(resp, symbol, interval, now),
                    "Failed to get intraday data: ")

EpochInstant == Instant(1970, 1, 1, 0, 0, 0)

\* a variant of InRange without the upper bound
InRangeFromStart(key, start, end) == DateGe(DateParse(key), start)

\* timestamp >= start && timestamp <= end on the Date of a series key
InRange(key, start, end) == DateGe(DateParse(key), start) /\ DateLe(DateParse(key), end)

\* the entries of series whose key lies between the instants start and end
FilterBetween(series, start, end) ==
  LET Kept(k) == InRange(k, start, end)
  IN [series EXCEPT
        !.timeSeries = [timestamp \in {k \in DOMAIN series.timeSeries : Kept(k)}
                          |-> series.timeSeries[timestamp]],
        !.order = SelectSeq(series.order, Kept)]

\* the date-range filter of getHistoricalData; a missing bound is ""
FilterByDateRange(series, startDate, endDate, now) ==
  IF startDate # "" \/ endDate # ""
    THEN FilterBetween(series,
                       IF startDate # "" THEN DateParse(startDate) ELSE EpochInstant,
                       IF endDate # "" THEN DateParse(endDate) ELSE NowInstant(now))
    ELSE series

\* the series getHistoricalData returns for the transformed response t
Filtered(t, startDate, endDate, now) ==
  IF t.ok THEN Ok(FilterByDateRange(t.v, startDate, endDate, now)) ELSE t

\* getHistoricalData: the statements of the try block after the request
HistoricalAfterResponse(resp, startDate, endDate, now) ==
  IF resp.status # 200
    THEN NoMock(Throw("API request failed with status " \o ToString(resp.status)
                        \o ": " \o resp.statusText))
  ELSE IF resp.data.t \in {"null", "undef"}
    THEN NoMock(Throw("Cannot read properties of " \o ToStr(resp.data)
                        \o " (reading 'Error Message')"))
  ELSE IF Truthy(Get(resp.data, "Error Message"))
    THEN NoMock(Throw(ToStr(Get(resp.data, "Error Message"))))
  ELSE NoMock(Filtered(transformData(resp.data, now), startDate, endDate, now))

\* getHistoricalData(symbol, startDate, endDate, interval)
getHistoricalData(apiKey, startDate, endDate, resp, now) ==
  IF ServiceKey(apiKey) = ""
    THEN Thrown("Failed to get historical data: " \o MissingKeyMessage, FALSE, FALSE)
  ELSE AfterRequest(AxiosGet(resp, NoTimeout), HistoricalAfterResponse(resp, startDate, endDate, now),
                    "Failed to get historical data: ")

----------------------------------------------------------------------------
(* Persistence: the StockData and DailyStockData collections *)

\* the schema's setters on a symbol: uppercase, trim
CastSymbol(symbol) == ToUpperCase(Trim(symbol))

\* characters in code-point order, for the comparison of strings
Alphabet == " ()-./0123456789:ABCDEFGHIJKLMNOPQRSTUVWXYZabcdefghijklmnopqrstuvwxyz"
CodeOf ==
  [c \in {Char(Alphabet, i) : i \in 1..Len(Alphabet)} |->
     CHOOSE i \in 1..Len(Alphabet) : Char(Alphabet, i) = c]
CharCode(c) == IF c \in DOMAIN CodeOf THEN CodeOf[c] ELSE 0

\* a < b on strings
RECURSIVE StrLess(_, _)
StrLess(a, b) ==
  IF Len(b) = 0 THEN FALSE
  ELSE IF Len(a) = 0 THEN TRUE
  ELSE IF Char(a, 1) = Char(b, 1) THEN StrLess(SubSeq(a, 2, Len(a)), SubSeq(b, 2, Len(b)))
  ELSE CharCode(Char(a, 1)) < CharCode(Char(b, 1))

\* StockData.findOne({symbol, interval}).sort({lastRefreshed: -1}): the indexes
\* of the documents the query may return (the order among equal sort keys is
\* not specified); empty when no document matches
LatestIndexes(store, symbol, interval) ==
  LET Match(i) == /\ store[i].metaData.symbol = Str(CastSymbol(symbol))
                  /\ store[i].metaData.interval = Str(interval)
      matching == {i \in 1..Len(store) : Match(i)}
  IN {i \in matching :
        \A j \in matching :
          ~StrLess(ToStr(store[i].metaData.lastRefreshed), ToStr(store[j].metaData.lastRefreshed))}

\* new StockData({metaData, timeSeries}): the document that save() inserts
NewStockDocument(rawData, now) ==
  [metaData    |-> [rawData.metaData EXCEPT !.symbol = Str(CastSymbol(ToStr(@)))],
   timeSeries  |-> rawData.timeSeries,
   lastUpdated |-> NowInstant(now)]

\* the validation save() runs against StockDataSchema: required paths, the
\* enums of dataType, interval and outputSize, the five required strings of
\* every time-series entry (an empty string fails `required`)
SchemaValid(doc) ==
  LET m == doc.metaData
      NonEmpty(v) == v.t = "str" /\ v.s # ""
  IN /\ NonEmpty(m.symbol)
     /\ m.dataType.t = "str" /\ m.dataType.s \in {"daily", "intraday", "weekly", "monthly"}
     /\ NonEmpty(m.lastRefreshed)
     /\ m.interval.t = "str" /\ m.interval.s \in {"1min", "5min", "15min", "30min", "60min"}
     /\ m.outputSize.t = "str" /\ m.outputSize.s \in {"compact", "full"}
     /\ \A ts \in DOMAIN doc.timeSeries :
          \A f \in DOMAIN doc.timeSeries[ts] : NonEmpty(doc.timeSeries[ts][f])

\* a.getTime() === b.getTime(): NaN equals nothing
SameTime(a, b) == a # NaN /\ b # NaN /\ a = b

\* the freshness test of saveStockData
IsUpToDate(latestData, rawData) ==
  SameTime(DateOf(latestData.metaData.lastRefreshed), DateOf(rawData.metaData.lastRefreshed))

\* the update document of the controller's findOneAndUpdate
IntradayUpdate(data, symbol, interval, now) ==
  [metaData |->
     [information   |-> Or(data.metaData.information, Str("")),
      symbol        |-> Str(CastSymbol(ToStr(Or(data.metaData.symbol, Str(symbol))))),
      lastRefreshed |-> Or(data.metaData.lastRefreshed, Str(NowISOString(now))),
      interval      |-> Or(data.metaData.interval, Str(interval)),
      outputSize    |-> Or(data.metaData.outputSize, Str("Compact")),
      timeZone      |-> Or(data.metaData.timeZone, Str("US/Eastern")),
      dataType      |-> Str("intraday")],
   timeSeries  |-> data.timeSeries,
   lastUpdated |-> NowInstant(now)]

\* the filter of the controller's findOneAndUpdate
IntradayFilter(doc, symbol, interval) ==
  /\ doc.metaData.symbol = Str(CastSymbol(symbol))
  /\ doc.metaData.dataType = Str("intraday")
  /\ doc.metaData.interval = Str(interval)

\* findOneAndUpdate(filter, update, {upsert: true}): the first matching
\* document is updated in place; without a match a document is inserted
FindOneAndUpdate(store, symbol, interval, update) ==
  LET matching == {i \in 1..Len(store) : IntradayFilter(store[i], symbol, interval)}
  IN IF matching = {} THEN Append(store, update)
     ELSE LET i == CHOOSE i \in matching : \A j \in matching : i <= j
          IN [store EXCEPT ![i] = update]

\* data[name] on a normalized daily point
PointField(point, name) == IF name \in DOMAIN point THEN Num(point[name]) ELSE Undef

\* isNaN(num) ? fallback : num
OrFallback(num, fallback) == IF num = NaN THEN fallback ELSE num

\* safeParseNumber(value, fallback)
safeParseNumber(value, fallback) == OrFallback(ParseFloat(value), fallback)

Min(a, b) == IF a < b THEN a ELSE b

\* Math.floor of a number in hundredths, in hundredths
Floor(n) == (n \div 100) * 100

\* the updateOne operation saveBulkDailyData builds for one entry
DailyOperation(symbol, dateStr, data, now) ==
  [symbol |-> CastSymbol(symbol),
   date   |-> DateParse(dateStr),
   open   |-> safeParseNumber(PointField(data, "1. open"), 0),
   high   |-> safeParseNumber(PointField(data, "2. high"), 0),
   low    |-> safeParseNumber(PointField(data, "3. low"), 0),
   close  |-> safeParseNumber(PointField(data, "4. close"), 0),
   volume |-> Floor(safeParseNumber(PointField(data, "5. volume"), 0)),
   adjustedClose |->
     safeParseNumber(Or(PointField(data, "5. adjusted close"), PointField(data, "4. close")), 0),
   dividendAmount   |-> safeParseNumber(PointField(data, "7. dividend amount"), 0),
   splitCoefficient |-> safeParseNumber(PointField(data, "8. split coefficient"), 100),
   lastRefreshed    |-> NowInstant(now)]

\* a variant of DailyOperations that skips no entry
DailyOperationsUnchecked(symbol, series, order, now) ==
  [i \in 1..Len(order) |->
     DailyOperation(symbol, order[i], series.timeSeries[order[i]], now)]

\* the operations array: one updateOne per entry, in entry order, entries
\* whose date key does not parse skipped
RECURSIVE DailyOperations(_, _, _, _)
DailyOperations(symbol, series, order, now) ==
  IF Len(order) = 0 THEN <<>>
  ELSE LET dateStr == Head(order)
           rest == DailyOperations(symbol, series, Tail(order), now)
       IN IF DateParse(dateStr) = NaN THEN rest
          ELSE <<DailyOperation(symbol, dateStr, series.timeSeries[dateStr], now)>> \o rest

\* updateOne({symbol, date}, {$set: ...}, {upsert: true}) applied to the store
RECURSIVE ApplyOperations(_, _)
ApplyOperations(store, ops) ==
  IF Len(ops) = 0 THEN store
  ELSE ApplyOperations((<<Head(ops).symbol, Head(ops).date>> :> Head(ops)) @@ store, Tail(ops))

\* DailyStockData.bulkWrite(operations) of which the store accepts applied
BulkWrite(store, operations, applied) ==
  [store      |-> ApplyOperations(store, SubSeq(operations, 1, Min(applied, Len(operations)))),
   ok         |-> applied >= Len(operations),
   operations |-> operations,
   error      |-> IF applied >= Len(operations) THEN "" ELSE "bulkWrite failed"]

\* saveBulkDailyData(symbol, timeSeriesData): bulkWrite is ordered, so a
\* failing write leaves the operations before it applied.  applied is the
\* number of operations the store accepts; fewer than all is a storage error.
saveBulkDailyData(store, symbol, series, applied, now) ==
  BulkWrite(store, DailyOperations(symbol, series, series.order, now), applied)

----------------------------------------------------------------------------
(* Bounds and inputs *)

MaxOps == 2       \* operations in one behaviour of Spec
MaxPoints == 2    \* entries in one upstream time series
MaxWait == 20000  \* ms a call is followed while it waits for its upstream
MaxConnections == 2  \* open connections of the HTTP server
MaxLogged == 2    \* errors the process logs and survives

\* an object literal from its <<key, value>> pairs, in order
ObjOf(pairs) ==
  Obj([i \in 1..Len(pairs) |-> pairs[i][1]],
      [k \in {pairs[i][1] : i \in 1..Len(pairs)} |->
         pairs[CHOOSE i \in 1..Len(pairs) : pairs[i][1] = k][2]])

GoodEntry ==
  ObjOf(<< <<"1. open", Str("10.50")>>, <<"2. high", Str("11.00")>>, <<"3. low", Str("10.00")>>,
           <<"4. close", Str("10.75")>>, <<"5. volume", Str("1000")>> >>)
BareEntry ==
  ObjOf(<< <<"open", Str("20.00")>>, <<"high", Str("21.50")>>, <<"low", Str("19.25")>>,
           <<"close", Str("21.00")>>, <<"volume", Str("2500")>> >>)
BadCloseEntry ==
  ObjOf(<< <<"1. open", Str("10.50")>>, <<"2. high", Str("11.00")>>, <<"3. low", Str("10.00")>>,
           <<"4. close", Str("abc")>>, <<"5. volume", Str("1000")>> >>)

Entries == {GoodEntry, BareEntry, BadCloseEntry}

\* the time series with at most MaxPoints entries under the first keys of keySeq
TimeSeriesOver(keySeq, entries) ==
  UNION {{ObjOf([i \in 1..n |-> <<keySeq[i], es[i]>>]) : es \in [1..n -> entries]} :
           n \in 0..MaxPoints}

IntradayKeySeqs ==
  { <<"2023-01-15 10:00:00", "2023-01-31 00:00:00", "2023-01-01 00:00:00", "2023-01-20 09:30:00">>,
    <<"2022-12-31 16:00:00", "2023-01-15 10:00:00", "2023-02-01 09:30:00", "not-a-date">>,
    <<"2023-02-01 09:30:00", "not-a-date", "2022-12-31 16:00:00", "2023-01-15 10:00:00">> }

DailyKeySeqs ==
  { <<"2023-01-03", "2023-01-04", "2023-01-05", "2023-01-06">>,
    <<"2023-01-03", "not-a-date", "2023-01-04", "2023-13-45">>,
    <<"not-a-date", "2023-01-03", "2023-13-45", "2023-01-04">> }

IntradayMeta(symbol, lastRefreshed, interval, outputSize) ==
  ObjOf(<< <<"1. Information", Str("Intraday prices and volume")>> >>
        \o (IF symbol = "" THEN <<>> ELSE << <<"2. Symbol", Str(symbol)>> >>)
        \o (IF lastRefreshed = "" THEN <<>> ELSE << <<"3. Last Refreshed", Str(lastRefreshed)>> >>)
        \o (IF interval = "" THEN <<>> ELSE << <<"4. Interval", Str(interval)>> >>)
        \o << <<"5. Output Size", Str(outputSize)>>, <<"6. Time Zone", Str("US/Eastern")>> >>)

DailyMeta(symbol, lastRefreshed) ==
  ObjOf(<< <<"1. Information", Str("Daily Prices")>> >>
        \o (IF symbol = "" THEN <<>> ELSE << <<"2. Symbol", Str(symbol)>> >>)
        \o (IF lastRefreshed = "" THEN <<>> ELSE << <<"3. Last Refreshed", Str(lastRefreshed)>> >>)
        \o << <<"4. Output Size", Str("Compact")>>, <<"5. Time Zone", Str("US/Eastern")>> >>)

IntradayBody(meta, series) ==
  ObjOf(<< <<"Meta Data", meta>>, <<"Time Series (5min)", series>> >>)
DailyBody(meta, series) ==
  ObjOf(<< <<"Meta Data", meta>>, <<"Time Series (Daily)", series>> >>)

Response(net, status, statusText, data) ==
  [net |-> net, status |-> status, statusText |-> statusText, data |-> data]
Http200(data) == Response("ok", 200, "OK", data)

RateLimitBody == ObjOf(<< <<"Note", Str("API rate limit is 5 calls per minute")>> >>)
OtherNoteBody == ObjOf(<< <<"Note", Str("Thank you for using Alpha Vantage!")>> >>)
ErrorBody == ObjOf(<< <<"Error Message", Str("Invalid API call.")>> >>)

\* the responses that are not a well-formed series: rate limit, a note that
\* is no rate limit, an explicit error message, a rate-limit note in another
\* casing and one under another spelling of its key, an empty body, no body, a
\* body without metadata, a body without time series, 4xx, 5xx, no answer
ErrorResponses(meta, series) ==
  { Http200(RateLimitBody), Http200(OtherNoteBody), Http200(ErrorBody),
    Http200(ObjOf(<< <<"Note", Str("API Rate Limit exceeded")>> >>)),
    Http200(ObjOf(<< <<"note", Str("API rate limit is 5 calls per minute")>> >>)),
    Http200(EmptyObj), Http200(Null),
    Http200(ObjOf(<< <<"Time Series (5min)", series>> >>)),
    Http200(ObjOf(<< <<"Meta Data", meta>> >>)),
    Response("ok", 404, "Not Found", ErrorBody),
    Response("ok", 429, "Too Many Requests", Null),
    Response("ok", 500, "Internal Server Error", Null),
    Response("ok", 503, "Service Unavailable", RateLimitBody),
    Response("timeout", 0, "", Null),
    Response("down", 0, "", Null) }

OneSeries(keySeq) == ObjOf(<< <<keySeq[1], GoodEntry>> >>)
IntradayKeys1 == <<"2023-01-15 10:00:00", "2023-01-31 00:00:00", "2023-01-01 00:00:00", "2023-01-20 09:30:00">>
DailyKeys1 == <<"2023-01-03", "2023-01-04", "2023-01-05", "2023-01-06">>

ApiKeys == {"", "demo", "AVKEY1"}
Symbols == {"IBM", "ibm"}
Intervals == {"5min", "1min"}
DateBounds == {"", "2023-01-01", "2023-01-31", "not-a-date"}

\* metadata whose numbered information and symbol are present and empty,
\* next to their bare spellings
BlankNumberedMeta ==
  ObjOf(<< <<"1. Information", Str("")>>, <<"Information", Str("Prices and volume")>>,
           <<"2. Symbol", Str("")>>, <<"Symbol", Str("IBM")>>,
           <<"3. Last Refreshed", Str("2023-01-31 16:00:00")>>, <<"4. Interval", Str("5min")>>,
           <<"5. Output Size", Str("Compact")>>, <<"6. Time Zone", Str("US/Eastern")>> >>)

\* the series of two entries of which each is a record, null, a string or a
\* number
MixedSeries(keySeq) ==
  {ObjOf(<< <<keySeq[1], e1>>, <<keySeq[2], e2>> >>) :
     e1 \in {GoodEntry, Null, Str("n/a"), Num(4200)},
     e2 \in {BareEntry, Null, Str("n/a"), Num(4200)}}

\* the upstream responses of the pure-function specification SpecNorm: the
\* series over the metadata and entries above, the responses that are no
\* series, a series with blank numbered metadata, and a series under other
\* spellings of its section keys
NormIntradayMetas ==
  { IntradayMeta("IBM", "2023-01-31 16:00:00", "5min", "Compact"),
    IntradayMeta("IBM", "2023-01-31 16:00:00", "", "Compact"),
    IntradayMeta("", "2023-01-31 16:00:00", "5min", "Compact"),
    IntradayMeta("ibm", "", "1min", "compact") }
NormIntradayResponses ==
  {Http200(IntradayBody(m, ts)) :
     m \in NormIntradayMetas,
     ts \in UNION {TimeSeriesOver(ks, Entries) : ks \in IntradayKeySeqs}}
  \cup ErrorResponses(IntradayMeta("IBM", "2023-01-31 16:00:00", "5min", "Compact"),
                      OneSeries(IntradayKeys1))
  \cup {Http200(IntradayBody(BlankNumberedMeta, OneSeries(IntradayKeys1))),
         Http200(ObjOf(<< <<"Information", IntradayMeta("IBM", "2023-01-31 16:00:00", "5min", "Compact")>>,
                          <<"Time Series (5min)", OneSeries(IntradayKeys1)>> >>))}
  \cup {Http200(IntradayBody(IntradayMeta("IBM", "2023-01-31 16:00:00", "5min", "Compact"), ts)) :
          ts \in MixedSeries(IntradayKeys1)}
NormDailyResponses ==
  {Http200(DailyBody(m, ts)) :
     m \in {DailyMeta("IBM", "2023-01-31"), DailyMeta("", "")},
     ts \in UNION {TimeSeriesOver(ks, Entries) : ks \in DailyKeySeqs}}
  \cup ErrorResponses(DailyMeta("IBM", "2023-01-31"), OneSeries(DailyKeys1))
  \cup {Http200(DailyBody(BlankNumberedMeta, OneSeries(DailyKeys1))),
         Http200(ObjOf(<< <<"Meta Data", DailyMeta("IBM", "2023-01-31")>>,
                          <<"time_series", OneSeries(DailyKeys1)>> >>))}
  \cup {Http200(DailyBody(DailyMeta("IBM", "2023-01-31"), ts)) : ts \in MixedSeries(DailyKeys1)}

\* the upstream responses of the stateful specification Spec: series that
\* differ in lastRefreshed, interval and content, and one response of each
\* class of failure
SpecIntradayResponses ==
  {Http200(IntradayBody(m, ts)) :
     m \in { IntradayMeta("IBM", "2023-01-31 16:00:00", "5min", "compact"),
             IntradayMeta("IBM", "2023-01-30 16:00:00", "5min", "Compact"),
             IntradayMeta("IBM", "as of today", "", "compact") },
     ts \in { OneSeries(IntradayKeys1),
              ObjOf(<< <<IntradayKeys1[1], BareEntry>>, <<IntradayKeys1[2], GoodEntry>> >>) }}
  \cup { Http200(RateLimitBody), Http200(EmptyObj),
         Http200(ObjOf(<< <<"Time Series (5min)", OneSeries(IntradayKeys1)>> >>)),
         Response("ok", 404, "Not Found", ErrorBody),
         Response("ok", 500, "Internal Server Error", Null) }
SpecDailyResponses ==
  {Http200(DailyBody(DailyMeta("IBM", "2023-01-31"), ts)) :
     ts \in UNION {TimeSeriesOver(ks, {GoodEntry}) : ks \in DailyKeySeqs}}
  \cup { Http200(RateLimitBody), Response("ok", 500, "Internal Server Error", Null) }

----------------------------------------------------------------------------
(* State *)

NoResponse == Response("none", 0, "", Null)
NoOutcome == Thrown("", FALSE, FALSE)

\* what the caller of an operation receives: an HTTP response of the
\* controller (status 200 or the error handler's status), or the value
\* returned / the Error thrown by a method of the service (status 0)
Reply(success, status, data, message) ==
  [success |-> success, status |-> status, data |-> data, message |-> message]
NoReply == Reply(FALSE, 0, NoSeries, "")

\* the process in the specifications that do not follow it: running, the
\* server listening, no exit code (-1)
NoProcess ==
  [env |-> "", direct |-> TRUE, listening |-> TRUE, connections |-> 0, closeCallbacks |-> <<>>,
   stopped |-> FALSE, logged |-> 0, exitCode |-> -1, exitBy |-> ""]

Idle ==
  [op |-> "none", phase |-> "done", apiKey |-> "", symbol |-> "", interval |-> "",
   startDate |-> "", endDate |-> "", resp |-> NoResponse, svc |-> NoOutcome,
   out |-> NoReply, outcome |-> "none", dbFailed |-> FALSE, accepts |-> 0,
   waited |-> 0]

Init ==
  /\ envApiKey \in ApiKeys
  /\ clock = 0
  /\ stockStore = <<>>
  /\ dailyStore = <<>>
  /\ last = Idle
  /\ requests = <<>>
  /\ process = NoProcess

\* the service calls of Spec, tabulated over its inputs
IntradayFetch ==
  [apiKey \in ApiKeys, symbol \in Symbols, interval \in Intervals,
   resp \in SpecIntradayResponses, now \in 0..MaxOps |->
     getIntradayData(apiKey, symbol, interval, resp, now)]
DailyFetch ==
  [apiKey \in ApiKeys, symbol \in Symbols, resp \in SpecDailyResponses, now \in 0..MaxOps |->
     getDailyData(apiKey, symbol, resp, now)]

----------------------------------------------------------------------------
(* The stock controller *)

\* getAlphaVantageApiKey(), env being process.env.ALPHA_VANTAGE_API_KEY
getAlphaVantageApiKey(env) ==
  IF env = "" THEN Throw(MissingKeyMessage) ELSE Ok(env)

\* the service call of a handler: made when the key is configured
Fetched(key, svc) == IF key.ok THEN svc ELSE Thrown(key.msg, FALSE, FALSE)

\* next(new ApiError(statusCode, message)) answered by the error middleware
ErrorReply(statusCode, message) == Reply(FALSE, statusCode, NoSeries, message)

\* GET /:symbol/daily.  applied: the number of bulk operations the store
\* accepts before it fails (all of them: no storage failure), kept in
\* last.accepts.
CtlGetDailyData(symbol, resp, applied) ==
  /\ clock < MaxOps
  /\ \E svc \in {Fetched(getAlphaVantageApiKey(envApiKey),
                            DailyFetch[envApiKey, symbol, resp, clock])} :
     \E saved \in {saveBulkDailyData(dailyStore, symbol, svc.data, applied, clock)} :
        /\ applied <= Len(saved.operations)
        /\ svc.ok \/ applied = 0
        /\ dailyStore' = IF svc.ok THEN saved.store ELSE dailyStore
        /\ last' = [Idle EXCEPT
                      !.op = "ctlDaily", !.apiKey = envApiKey, !.symbol = symbol,
                      !.resp = resp, !.svc = svc, !.accepts = applied,
                      !.out = IF svc.ok
                                THEN Reply(TRUE, 200, svc.data, "Daily data fetched successfully")
                                ELSE ErrorReply(500, "Failed to fetch daily data: " \o svc.error),
                      !.outcome = IF ~svc.ok THEN "none"
                                  ELSE IF saved.ok THEN "applied" ELSE "storageFailed",
                      !.dbFailed = svc.ok /\ ~saved.ok]
  /\ clock' = clock + 1
  /\ UNCHANGED <<envApiKey, stockStore, requests, process>>

\* GET /:symbol/intraday.  dbOk: the store accepts the findOneAndUpdate.
CtlGetIntradayData(symbol, interval, resp, dbOk) ==
  /\ clock < MaxOps
  /\ \E svc \in {Fetched(getAlphaVantageApiKey(envApiKey),
                            IntradayFetch[envApiKey, symbol, interval, resp, clock])} :
        /\ svc.ok \/ dbOk
        /\ stockStore' =
             IF svc.ok /\ dbOk
               THEN FindOneAndUpdate(stockStore, symbol, interval,
                                     IntradayUpdate(svc.data, symbol, interval, clock))
               ELSE stockStore
        /\ last' = [Idle EXCEPT
                      !.op = "ctlIntraday", !.apiKey = envApiKey, !.symbol = symbol,
                      !.interval = interval, !.resp = resp, !.svc = svc,
                      !.out = IF svc.ok
                                THEN Reply(TRUE, 200, svc.data, "Intraday data fetched successfully")
                                ELSE ErrorReply(500, "Failed to fetch intraday data: " \o svc.error),
                      !.outcome = IF ~svc.ok THEN "none"
                                  ELSE IF dbOk THEN "applied" ELSE "storageFailed",
                      !.dbFailed = svc.ok /\ ~dbOk]
  /\ clock' = clock + 1
  /\ UNCHANGED <<envApiKey, dailyStore, requests, process>>

----------------------------------------------------------------------------
(* AlphaVantageService.saveStockData *)

\* the outcomes of findOne: a document of candidates, or null (0)
OrNone(candidates) == IF candidates = {} THEN {0} ELSE candidates

DocSeries(doc) == [metaData |-> doc.metaData, timeSeries |-> doc.timeSeries, order |-> <<>>]

\* saveStockData(symbol, interval) of a service built with the configured
\* key.  findOk: the findOne query succeeds; saveOk: the store accepts the
\* insert of a valid document.
SaveStockData(symbol, interval, resp, findOk, saveOk) ==
  /\ clock < MaxOps
  /\ \E rawData \in {IntradayFetch[envApiKey, symbol, interval, resp, clock]} :
     \E i \in OrNone(LatestIndexes(stockStore, symbol, interval)) :
          LET stockData == NewStockDocument(rawData.data, clock)
              upToDate == findOk /\ rawData.ok /\ i # 0 /\ IsUpToDate(stockStore[i], rawData.data)
              saving == findOk /\ rawData.ok /\ ~upToDate
              saved == saving /\ SchemaValid(stockData) /\ saveOk
          IN /\ saving \/ saveOk
             /\ stockStore' = IF saved THEN Append(stockStore, stockData) ELSE stockStore
             /\ last' = [Idle EXCEPT
                           !.op = "saveStockData", !.apiKey = envApiKey, !.symbol = symbol,
                           !.interval = interval, !.resp = resp,
                           !.svc = IF findOk THEN rawData ELSE NoOutcome,
                           !.out = IF ~findOk THEN Reply(FALSE, 0, NoSeries, "findOne failed")
                                   ELSE IF ~rawData.ok THEN Reply(FALSE, 0, NoSeries, rawData.error)
                                   ELSE IF upToDate THEN Reply(TRUE, 0, DocSeries(stockStore[i]), "")
                                   ELSE IF saved THEN Reply(TRUE, 0, DocSeries(stockData), "")
                                   ELSE Reply(FALSE, 0, NoSeries, "save failed"),
                           !.outcome = IF upToDate THEN "skippedAsStale"
                                       ELSE IF saved THEN "applied"
                                       ELSE IF saving THEN "storageFailed" ELSE "none",
                           !.dbFailed = ~findOk \/ (saving /\ ~saved)]
  /\ clock' = clock + 1
  /\ UNCHANGED <<envApiKey, dailyStore, requests, process>>

----------------------------------------------------------------------------
(* Specification of the operations that write the two collections *)

Next ==
  \/ \E symbol \in Symbols, resp \in SpecDailyResponses, applied \in 0..(MaxPoints + 1) :
       CtlGetDailyData(symbol, resp, applied)
  \/ \E interval \in Intervals, resp \in SpecIntradayResponses, dbOk \in BOOLEAN :
       CtlGetIntradayData("IBM", interval, resp, dbOk)
  \/ \E interval \in Intervals, resp \in SpecIntradayResponses, findOk \in BOOLEAN, saveOk \in BOOLEAN :
       SaveStockData("IBM", interval, resp, findOk, saveOk)

Spec == Init /\ [][Next]_vars

----------------------------------------------------------------------------
(* Specification of the fetch operations as functions of their inputs:     *)
(* the initial state holds one pending call, the action performs it        *)

Pending(op, apiKey, symbol, interval, startDate, endDate, resp) ==
  [Idle EXCEPT !.op = op, !.phase = "pending", !.apiKey = apiKey, !.symbol = symbol,
               !.interval = interval, !.startDate = startDate, !.endDate = endDate,
               !.resp = resp]

PendingCalls ==
  {Pending("getDailyData", "AVKEY1", symbol, "", "", "", resp) :
     symbol \in Symbols, resp \in NormDailyResponses}
  \cup {Pending("getIntradayData", "AVKEY1", symbol, interval, "", "", resp) :
          symbol \in Symbols, interval \in Intervals, resp \in NormIntradayResponses}
  \cup {Pending(op, "AVKEY1", "IBM", "5min", startDate, endDate, resp) :
          op \in {"getHistoricalData", "ctlHistorical"},
          startDate \in DateBounds, endDate \in DateBounds, resp \in NormIntradayResponses}
  \cup {Pending(op, apiKey, "IBM", "5min", "", "", Http200(RateLimitBody)) :
          op \in {"getDailyData", "getIntradayData", "getHistoricalData", "ctlHistorical"},
          apiKey \in ApiKeys}

InitNorm ==
  /\ envApiKey = "AVKEY1"
  /\ clock = 0
  /\ stockStore = <<>>
  /\ dailyStore = <<>>
  /\ last \in PendingCalls
  /\ requests = <<>>
  /\ process = NoProcess

ServiceReply(svc) ==
  IF svc.ok THEN Reply(TRUE, 0, svc.data, "") ELSE Reply(FALSE, 0, NoSeries, svc.error)

\* the timeout option of the request of each operation
TimeoutOf(op) ==
  IF op \in {"getDailyData", "getIntradayData"} THEN RequestTimeout ELSE NoTimeout

\* the pending call issues a request: its check of the key passes
IssuesRequest ==
  IF last.op = "ctlHistorical" THEN getAlphaVantageApiKey(last.apiKey).ok
  ELSE IF last.op = "getHistoricalData" THEN TRUE
  ELSE ~IsDemoKey(ServiceKey(last.apiKey))

\* the pending call returns: it issues no request, or its request settles
Returns == IssuesRequest => Settles(last.resp, TimeoutOf(last.op), last.waited)

\* await axios.get(...) on an upstream that does not answer: time passes
\* until the timeout of the request, if it has one, ends the wait
AwaitUpstream ==
  /\ last.phase = "pending" /\ IssuesRequest
  /\ last.resp.net = "timeout"
  /\ ~Settles(last.resp, TimeoutOf(last.op), last.waited)
  /\ last.waited < MaxWait
  /\ last' = [last EXCEPT !.waited = last.waited + 5000]
  /\ UNCHANGED <<envApiKey, clock, stockStore, dailyStore, requests, process>>

CallGetDailyData ==
  /\ last.phase = "pending" /\ last.op = "getDailyData"
  /\ Returns
  /\ \E svc \in {getDailyData(last.apiKey, last.symbol, last.resp, clock)} :
        last' = [last EXCEPT !.phase = "done", !.svc = svc, !.out = ServiceReply(svc)]
  /\ UNCHANGED <<envApiKey, clock, stockStore, dailyStore, requests, process>>

CallGetIntradayData ==
  /\ last.phase = "pending" /\ last.op = "getIntradayData"
  /\ Returns
  /\ \E svc \in {getIntradayData(last.apiKey, last.symbol, last.interval, last.resp, clock)} :
        last' = [last EXCEPT !.phase = "done", !.svc = svc, !.out = ServiceReply(svc)]
  /\ UNCHANGED <<envApiKey, clock, stockStore, dailyStore, requests, process>>

\* the request of getHistoricalData has no timeout: the call returns only
\* when the upstream answers or the connection fails
CallGetHistoricalData ==
  /\ last.phase = "pending" /\ last.op = "getHistoricalData"
  /\ Returns
  /\ \E svc \in {getHistoricalData(last.apiKey, last.startDate, last.endDate, last.resp, clock)} :
        last' = [last EXCEPT !.phase = "done", !.svc = svc, !.out = ServiceReply(svc)]
  /\ UNCHANGED <<envApiKey, clock, stockStore, dailyStore, requests, process>>

\* GET /:symbol/historical, with last.apiKey as the configured key and the
\* query parameters start_date and end_date (a missing one is "").  The
\* 404 of the handler needs a falsy data or data.timeSeries, which a
\* returned series never has; every thrown Error is answered with 500.
CtlGetHistoricalData ==
  /\ last.phase = "pending" /\ last.op = "ctlHistorical"
  /\ Returns
  /\ \E svc \in {Fetched(getAlphaVantageApiKey(last.apiKey),
                            getHistoricalData(last.apiKey, last.startDate, last.endDate,
                                              last.resp, clock))} :
        last' = [last EXCEPT
                   !.phase = "done", !.svc = svc,
                   !.out = IF svc.ok
                             THEN Reply(TRUE, 200, svc.data, "Historical data fetched successfully")
                             ELSE ErrorReply(500, "Failed to fetch historical data: " \o svc.error)]
  /\ UNCHANGED <<envApiKey, clock, stockStore, dailyStore, requests, process>>

NextNorm ==
  \/ AwaitUpstream
  \/ CallGetDailyData
  \/ CallGetIntradayData
  \/ CallGetHistoricalData
  \/ CtlGetHistoricalData

SpecNorm == InitNorm /\ [][NextNorm]_vars

----------------------------------------------------------------------------
(* Classes of upstream responses, as the fetch methods tell them apart *)

\* the request was issued and axios resolved with the response
Delivered(resp) == resp.net = "ok" /\ resp.status >= 200 /\ resp.status < 500

\* response.data.Note mentions 'demo' or 'rate limit'
RateLimited(resp) ==
  /\ Delivered(resp)
  /\ Truthy(resp.data)
  /\ Get(resp.data, "Note").t = "str"
  /\ NoteIsRateLimit(Get(resp.data, "Note").s)

\* a status from 400 to 499 without a rate-limit note
ClientError(resp) == Delivered(resp) /\ resp.status >= 400 /\ ~RateLimited(resp)

\* status 200 with no data or with an object without keys
EmptyResponse(resp) ==
  /\ Delivered(resp) /\ resp.status = 200
  /\ ~Truthy(resp.data) \/ (resp.data.t = "obj" /\ Len(resp.data.keys) = 0)

\* status 200 with a body that carries no note, no error message, and lacks
\* a metadata key or a time-series key
SchemaMismatch(resp, metaKind, timeSeriesKind) ==
  /\ Delivered(resp) /\ resp.status = 200
  /\ resp.data.t = "obj" /\ Len(resp.data.keys) > 0
  /\ ~Truthy(Get(resp.data, "Note")) /\ ~Truthy(Get(resp.data, "Error Message"))
  /\ FindKey(resp.data.keys, metaKind) = NoKey \/ FindKey(resp.data.keys, timeSeriesKind) = NoKey

\* the answer is not a 2xx..4xx response: 5xx, timeout, connection failure
ServerError(resp) == resp.net # "none" /\ ~Delivered(resp)

\* status 200 with a metadata section and a time-series section, both objects
WellFormed(resp, metaKind, timeSeriesKind) ==
  /\ Delivered(resp) /\ resp.status = 200
  /\ resp.data.t = "obj"
  /\ ~Truthy(Get(resp.data, "Note")) /\ ~Truthy(Get(resp.data, "Error Message"))
  /\ FindKey(resp.data.keys, metaKind) # NoKey
  /\ FindKey(resp.data.keys, timeSeriesKind) # NoKey
  /\ Truthy(resp.data.val[FindKey(resp.data.keys, metaKind)])
  /\ resp.data.val[FindKey(resp.data.keys, timeSeriesKind)].t = "obj"

\* the metadata section and the time-series section of a well-formed payload
PayloadMeta(resp, metaKind) == resp.data.val[FindKey(resp.data.keys, metaKind)]
PayloadSeries(resp, timeSeriesKind) == resp.data.val[FindKey(resp.data.keys, timeSeriesKind)]

\* the operation op has been performed and its outcome is in last
Performed(op) == last.phase = "done" /\ last.op = op

\* the open, high, low, close and volume of a raw entry all parse to a number
FiniteEntry(values) ==
  /\ ParseFloat(Or(Get(values, "1. open"), Get(values, "open"))) # NaN
  /\ ParseFloat(Or(Get(values, "2. high"), Get(values, "high"))) # NaN
  /\ ParseFloat(Or(Get(values, "3. low"), Get(values, "low"))) # NaN
  /\ ParseFloat(Or(Get(values, "4. close"), Get(values, "close"))) # NaN
  /\ ParseFloat(Or(Get(values, "5. volume"), Get(values, "volume"))) # NaN

----------------------------------------------------------------------------
(* Properties of the fetch operations, checked under SpecNorm *)

\* C1: an intraday request whose response is rate limited returns a series
\* (the synthetic fallback) instead of failing.
C1_RateLimitedReturnsFallback ==
  (Performed("getIntradayData") /\ last.svc.sent /\ RateLimited(last.resp))
    => (last.svc.ok /\ last.out.success)

\* C2: an intraday request whose response is rate limited, empty, a 4xx or
\* a schema mismatch completes with a series, never with a failure.
C2_IntradayErrorsAbsorbed ==
  (/\ Performed("getIntradayData") /\ last.svc.sent
   /\ \/ RateLimited(last.resp)
      \/ EmptyResponse(last.resp)
      \/ ClientError(last.resp)
      \/ SchemaMismatch(last.resp, "intradayMeta", "intradayTimeSeries"))
    => last.out.success

\* the errors of a daily and of a historical request
DailyError(resp) ==
  \/ RateLimited(resp) \/ EmptyResponse(resp) \/ ClientError(resp) \/ ServerError(resp)
  \/ SchemaMismatch(resp, "dailyMeta", "dailyTimeSeries")
HistoricalError(resp) ==
  \/ RateLimited(resp) \/ EmptyResponse(resp) \/ ClientError(resp) \/ ServerError(resp)
  \/ SchemaMismatch(resp, "intradayMeta", "intradayTimeSeries")

\* the request of the performed operation met an upstream or normalization error
RequestFailed ==
  /\ last.svc.sent
  /\ \/ Performed("getDailyData") /\ DailyError(last.resp)
     \/ Performed("getHistoricalData") /\ HistoricalError(last.resp)
     \/ Performed("ctlHistorical") /\ HistoricalError(last.resp)

\* C3: a daily or historical request never calls the fallback supplier, and
\* every upstream or normalization error (rate limit, empty body, 4xx, 5xx,
\* schema mismatch) reaches the caller as a failure that carries a
\* description and no series.
C3_DailyHistoricalPropagate ==
  /\ (Performed("getDailyData") \/ Performed("getHistoricalData") \/ Performed("ctlHistorical"))
       => ~last.svc.mock
  /\ RequestFailed
       => (~last.svc.ok /\ ~last.out.success /\ last.out.message # "" /\ last.out.data = NoSeries)

C3_Witness ==
  /\ Performed("getDailyData") /\ last.svc.sent
  /\ SchemaMismatch(last.resp, "dailyMeta", "dailyTimeSeries")
  /\ ~last.out.success
  /\ last.out.message = "Failed to get daily data: Error transforming API response"

\* the performed fetch was answered with a well-formed payload of its kind
WellFormedIntraday ==
  /\ Performed("getIntradayData") /\ last.svc.sent
  /\ WellFormed(last.resp, "intradayMeta", "intradayTimeSeries")
WellFormedDaily ==
  /\ Performed("getDailyData") /\ last.svc.sent
  /\ WellFormed(last.resp, "dailyMeta", "dailyTimeSeries")

\* the entries of the raw series are exactly kept when finite, dropped otherwise
FiniteEntriesKept(rawSeries, timeSeries) ==
  \A k \in Range(rawSeries.keys) :
    rawSeries.val[k].t = "obj" => (FiniteEntry(rawSeries.val[k]) <=> k \in DOMAIN timeSeries)

\* C6: normalization of a well-formed payload succeeds, keeps every entry
\* whose open, high, low, close and volume parse to a number, and leaves out
\* every entry with a field that does not.
C6_MalformedEntriesDropped ==
  /\ WellFormedIntraday
       => /\ last.svc.ok
          /\ FiniteEntriesKept(PayloadSeries(last.resp, "intradayTimeSeries"),
                               last.svc.data.timeSeries)
  /\ WellFormedDaily
       => /\ last.svc.ok
          /\ FiniteEntriesKept(PayloadSeries(last.resp, "dailyTimeSeries"),
                               last.svc.data.timeSeries)

\* the metadata of the payload carries no field of one of the two names
Lacks(metaData, name1, name2) == ~Truthy(Get(metaData, name1)) /\ ~Truthy(Get(metaData, name2))

\* C7: when the metadata of an intraday payload carries no interval, the
\* interval of the returned series is the interval the caller requested.
C7_IntervalDefaultsToRequested ==
  (/\ WellFormedIntraday
   /\ Lacks(PayloadMeta(last.resp, "intradayMeta"), "4. Interval", "Interval"))
    => (last.svc.ok /\ last.svc.data.metaData.interval = Str(last.interval))

\* C8: for a well-formed intraday payload with the metadata key "Meta Data",
\* whose metadata names the requested symbol or no symbol, the returned
\* series has dataType "intraday" and the requested symbol.
C8_SymbolIsRequested ==
  (/\ WellFormedIntraday
   /\ FindKey(last.resp.data.keys, "intradayMeta") = "Meta Data"
   /\ \/ Lacks(PayloadMeta(last.resp, "intradayMeta"), "2. Symbol", "Symbol")
      \/ Get(PayloadMeta(last.resp, "intradayMeta"), "2. Symbol") = Str(last.symbol))
    => /\ last.svc.ok
       /\ last.svc.data.metaData.dataType = Str("intraday")
       /\ last.svc.data.metaData.symbol = Str(last.symbol)

\* the historical operation, of the service or of the controller, returned a series
HistoricalReturned ==
  (Performed("getHistoricalData") \/ Performed("ctlHistorical")) /\ last.out.success

----------------------------------------------------------------------------
(* Properties of the operations that write the collections, checked under  *)
(* Spec                                                                     *)

\* the step reconciles a fetched intraday series with a store that answers
SeriesReconciled ==
  /\ clock' = clock + 1
  /\ last'.op \in {"ctlIntraday", "saveStockData"}
  /\ last'.svc.ok /\ ~last'.dbFailed

\* the latest stored record of the key has the lastRefreshed of the fetched series
LatestIsIdentical ==
  \E i \in LatestIndexes(stockStore, last'.symbol, last'.interval) :
    stockStore[i].metaData.lastRefreshed = last'.svc.data.metaData.lastRefreshed

\* C4: reconciling an intraday series whose lastRefreshed is identical to
\* that of the latest stored record of its key is reported as skipped as
\* stale and leaves the store as it was.
C4_IdenticalRefreshSkipped ==
  [][(SeriesReconciled /\ LatestIsIdentical)
       => (last'.outcome = "skippedAsStale" /\ stockStore' = stockStore)]_vars

\* the date keys of a normalized daily series that parse to a date
ParsableKeys(timeSeries) == {k \in DOMAIN timeSeries : DateParse(k) # NaN}

\* the step is a daily request whose series is written to a store that
\* accepts a write for each parsable entry
DailyUpserted ==
  /\ clock' = clock + 1
  /\ last'.op = "ctlDaily" /\ last'.svc.ok
  /\ last'.accepts >= Cardinality(ParsableKeys(last'.svc.data.timeSeries))

\* the (symbol, date) key under which the entry of date key k is stored
DailyKey(symbol, k) == <<CastSymbol(symbol), DateParse(k)>>

\* C5: a bulk daily upsert writes a record for every entry whose date key
\* parses, writes nothing for the entries whose date key does not, and
\* reports success.
C5_BulkUpsertSkipsUnparsable ==
  [][DailyUpserted =>
       /\ last'.outcome = "applied"
       /\ \A k \in ParsableKeys(last'.svc.data.timeSeries) :
            /\ DailyKey(last'.symbol, k) \in DOMAIN dailyStore'
            /\ dailyStore'[DailyKey(last'.symbol, k)].lastRefreshed = NowInstant(clock)
       /\ \A key \in DOMAIN dailyStore' :
            \/ key \in DOMAIN dailyStore /\ dailyStore'[key] = dailyStore[key]
            \/ \E k \in ParsableKeys(last'.svc.data.timeSeries) : key = DailyKey(last'.symbol, k)]_vars

C5_Witness ==
  /\ last.op = "ctlDaily" /\ last.outcome = "applied"
  /\ DOMAIN last.svc.data.timeSeries = {"2023-01-03", "not-a-date"}
  /\ DOMAIN dailyStore = {DailyKey("IBM", "2023-01-03")}

\* C10: when the fetch and the normalization succeeded and the storage
\* write failed, the caller receives the normalized series with success.
C10_StorageFailureAbsorbed ==
  (last.svc.ok /\ last.dbFailed) => (last.out.success /\ last.out.data = last.svc.data)

----------------------------------------------------------------------------
(* Properties of the Upstream Client, checked under SpecNorm *)

\* the performed operation was called without a configured credential
NoCredential == last.phase = "done" /\ last.apiKey = ""

\* C11: without a configured credential every fetch operation fails with
\* the configuration error and issues no upstream request.
C11_NoCredentialFailsFast ==
  NoCredential =>
    /\ ~last.svc.sent
    /\ ~last.out.success
    /\ Includes(last.out.message, MissingKeyMessage)

\* status 200 with a body whose note field, in any casing of its key and of
\* its text, mentions rate limiting
RateLimitNote(resp) ==
  /\ resp.net = "ok" /\ resp.status = 200 /\ resp.data.t = "obj"
  /\ \E k \in Range(resp.data.keys) :
       /\ ToLowerCase(k) = "note"
       /\ resp.data.val[k].t = "str"
       /\ Includes(ToLowerCase(resp.data.val[k].s), "rate limit")

\* the performed operation treated the response as rate limited: the daily
\* and the historical fetch fail with the rate-limit error, the intraday
\* fetch turns to the fallback
TreatedAsRateLimited ==
  IF last.op = "getIntradayData" THEN last.svc.mock
  ELSE ~last.svc.ok /\ Includes(ToLowerCase(last.svc.error), "rate limit exceeded")

\* C12: a status-200 response whose body carries a note that mentions rate
\* limiting is treated as rate limited by every fetch operation, whatever
\* the casing of the note and the spelling of its key.
C12_NoteIsRateLimited ==
  (last.phase = "done" /\ last.svc.sent /\ RateLimitNote(last.resp)) => TreatedAsRateLimited

\* a delivered response whose body carries an explicit error message
UpstreamRejected(resp) ==
  Delivered(resp) /\ resp.data.t = "obj" /\ Truthy(Get(resp.data, "Error Message"))

\* C13: a daily or historical request answered with a body that carries an
\* explicit error message fails with that message, whatever the status.
C13_ErrorMessageReported ==
  (/\ Performed("getDailyData") \/ Performed("getHistoricalData")
   /\ last.svc.sent
   /\ UpstreamRejected(last.resp))
    => (~last.svc.ok /\ Includes(last.svc.error, ToStr(Get(last.resp.data, "Error Message"))))

\* a fetch operation is pending on an upstream that does not answer
AwaitsSilentUpstream ==
  /\ last.phase = "pending"
  /\ last.op \in {"getDailyData", "getIntradayData", "getHistoricalData"}
  /\ last.resp.net = "timeout"

\* C14: the request of a daily, intraday or historical fetch is bounded by
\* the request timeout: no fetch is still waiting for its upstream after
\* that time.
C14_WaitBoundedByTimeout == AwaitsSilentUpstream => last.waited <= RequestTimeout

----------------------------------------------------------------------------
(* The routes of stockRoutes.js and their validation middleware *)

\* validator.js escape
EscapeChar(c) ==
  CASE c = "&" -> "&amp;"
    [] c = "<" -> "&lt;"
    [] c = ">" -> "&gt;"
    [] c = "\"" -> "&quot;"
    [] c = "'" -> "&#x27;"
    [] c = "/" -> "&#x2F;"
    [] OTHER -> c

RECURSIVE Escape(_)
Escape(s) == IF Len(s) = 0 THEN "" ELSE EscapeChar(Char(s, 1)) \o Escape(SubSeq(s, 2, Len(s)))

\* validator.js isISO8601 (not strict) on the forms YYYY-MM-DD and
\* YYYY-MM-DDTHH:MM:SS[Z]: month 01-12, day 01-31, hour 00-23
IsISO8601(s) ==
  /\ Len(s) \in {10, 19, 20}
  /\ AllDigits(s, 1, 4) /\ Char(s, 5) = "-"
  /\ AllDigits(s, 6, 2) /\ DigitsVal(s, 6, 2) \in 1..12 /\ Char(s, 8) = "-"
  /\ AllDigits(s, 9, 2) /\ DigitsVal(s, 9, 2) \in 1..31
  /\ Len(s) > 10 =>
       /\ Char(s, 11) \in {"T", " "}
       /\ AllDigits(s, 12, 2) /\ DigitsVal(s, 12, 2) <= 23 /\ Char(s, 14) = ":"
       /\ AllDigits(s, 15, 2) /\ DigitsVal(s, 15, 2) <= 59 /\ Char(s, 17) = ":"
       /\ AllDigits(s, 18, 2) /\ DigitsVal(s, 18, 2) <= 59
       /\ Len(s) = 20 => Char(s, 20) = "Z"

\* the errors a validation chain records: those of the checks that fail
Failed(checks) == SelectSeq(checks, LAMBDA m : m # "")
Check(ok, message) == IF ok THEN "" ELSE message

\* validateSymbol: the errors of the chain on param("symbol")
SymbolErrors(v) ==
  Failed(<< Check(v.t # "undef", "Symbol is required"),
            Check(v.t = "str", "Symbol must be a string"),
            Check(v.t = "str" /\ Len(v.s) >= 1 /\ Len(v.s) <= 10, "Symbol must be 1-10 characters") >>)

\* validateSymbol: the sanitizers trim() and escape()
SanitizedSymbol(v) == IF v.t = "str" THEN Str(Escape(Trim(v.s))) ELSE v

\* validateInterval: the errors of the chain on query("interval")
IntervalErrors(v) ==
  IF v.t = "undef" THEN <<>>
  ELSE Failed(<< Check(v.t = "str" /\ v.s \in {"1min", "5min", "15min", "30min", "60min"},
                       "Invalid interval. Must be one of: 1min, 5min, 15min, 30min, 60min") >>)

\* validateDateRange: the errors of the chains on query("startDate") and
\* query("endDate"); new Date(value) < new Date(startDate) is false when
\* either is an Invalid Date
StartDateErrors(v) ==
  IF v.t = "undef" THEN <<>>
  ELSE Failed(<< Check(v.t = "str" /\ IsISO8601(v.s), "startDate must be a valid ISO8601 date") >>)
EndDateErrors(v, startDate) ==
  IF v.t = "undef" THEN <<>>
  ELSE Failed(<< Check(v.t = "str" /\ IsISO8601(v.s), "endDate must be a valid ISO8601 date"),
                 Check(~(/\ Truthy(startDate)
                         /\ DateOf(v) # NaN /\ DateOf(startDate) # NaN
                         /\ DateOf(v) < DateOf(startDate)),
                       "endDate must be after startDate") >>)


\* the middleware each route runs before its handler
Middlewares ==
  [intraday |-> <<"validateSymbol", "validateInterval">>,
   daily |-> <<"validateSymbol", "validateOutputSize">>,
   historical |-> <<"validateSymbol", "validateInterval", "validateDateRange">>]

NoCall == [op |-> "none", symbol |-> Undef, interval |-> Undef, outputsize |-> Undef,
           startDate |-> Undef, endDate |-> Undef]

\* a request as Express hands it to the route: stage is its position in the
\* route's list (0 once it has ended), received the parameters as they came
Query(interval, outputsize, startDate, endDate, start_date, end_date) ==
  [interval |-> interval, outputsize |-> outputsize, startDate |-> startDate,
   endDate |-> endDate, start_date |-> start_date, end_date |-> end_date]
Request(route, symbol, query) ==
  [route |-> route, stage |-> 1, params |-> [symbol |-> Str(symbol)], query |-> query,
   received |-> [symbol |-> symbol, query |-> query], errors |-> <<>>, status |-> 0,
   call |-> NoCall]

RouteSymbols == {"IBM", "ABCDEFGHIJK", " IBM", "<b>"}
RouteIntervals == {Undef, Str("5min"), Str("2min")}
RouteOutputSizes == {Undef, Str("FULL"), Str("big")}
RouteDates == {Undef, Str("2023-01-31"), Str("2023-01-01"), Str("not-a-date")}
RouteRequests ==
  {Request("intraday", symbol, Query(interval, Undef, Undef, Undef, Undef, Undef)) :
     symbol \in RouteSymbols, interval \in RouteIntervals}
  \cup {Request("daily", symbol, Query(Undef, outputsize, Undef, Undef, Undef, Undef)) :
          symbol \in RouteSymbols, outputsize \in RouteOutputSizes}
  \cup {Request("historical", symbol, Query(interval, Undef, startDate, endDate, used[1], used[2])) :
          symbol \in RouteSymbols, interval \in RouteIntervals,
          startDate \in RouteDates, endDate \in RouteDates,
          used \in {<<Undef, Undef>>, <<Str("2023-01-01"), Str("2023-01-31")>>,
                    <<Str("2023-01-31"), Str("2023-01-01")>>}}

InitRoute ==
  /\ envApiKey = "AVKEY1"
  /\ clock = 0
  /\ stockStore = <<>>
  /\ dailyStore = <<>>
  /\ last = Idle
  /\ requests \in {<<r>> : r \in RouteRequests}
  /\ process = NoProcess

\* request i stands before the middleware of this name
At(i, name) ==
  /\ requests[i].stage \in DOMAIN Middlewares[requests[i].route]
  /\ Middlewares[requests[i].route][requests[i].stage] = name

\* a validation chain run as middleware: it records its errors on the
\* request, applies its sanitizers and calls next()
ValidateSymbol(i) ==
  /\ At(i, "validateSymbol")
  /\ requests' = [requests EXCEPT
       ![i].errors = @ \o SymbolErrors(requests[i].params.symbol),
       ![i].params.symbol = SanitizedSymbol(@),
       ![i].stage = @ + 1]
  /\ UNCHANGED <<envApiKey, clock, stockStore, dailyStore, last, process>>

ValidateInterval(i) ==
  /\ At(i, "validateInterval")
  /\ requests' = [requests EXCEPT
       ![i].errors = @ \o IntervalErrors(requests[i].query.interval),
       ![i].stage = @ + 1]
  /\ UNCHANGED <<envApiKey, clock, stockStore, dailyStore, last, process>>

ValidateDateRange(i) ==
  /\ At(i, "validateDateRange")
  /\ requests' = [requests EXCEPT
       ![i].errors = @ \o StartDateErrors(requests[i].query.startDate)
                       \o EndDateErrors(requests[i].query.endDate, requests[i].query.startDate),
       ![i].stage = @ + 1]
  /\ UNCHANGED <<envApiKey, clock, stockStore, dailyStore, last, process>>

\* validateOutputSize: next(new ApiError(400, ...)) ends the request in the
\* error handler; otherwise the lower-cased value is stored and next() called
OutputSizeOf(query) == IF query.outputsize.t = "undef" THEN Str("compact") ELSE query.outputsize
ValidateOutputSize(i) ==
  /\ At(i, "validateOutputSize")
  /\ requests' =
       IF /\ Truthy(OutputSizeOf(requests[i].query))
          /\ ToLowerCase(OutputSizeOf(requests[i].query).s) \notin {"compact", "full"}
       THEN [requests EXCEPT ![i].status = 400, ![i].stage = 0]
       ELSE [requests EXCEPT
               ![i].query.outputsize = Str(ToLowerCase(OutputSizeOf(requests[i].query).s)),
               ![i].stage = @ + 1]
  /\ UNCHANGED <<envApiKey, clock, stockStore, dailyStore, last, process>>

\* the arguments with which the handler of the route calls its fetch
\* operation: req.params.symbol and the query values it reads, with defaults
HandlerCall(r) ==
  CASE r.route = "intraday" ->
         [NoCall EXCEPT !.op = "getIntradayData", !.symbol = r.params.symbol,
                        !.interval = IF r.query.interval.t = "undef" THEN Str("5min")
                                     ELSE r.query.interval]
    [] r.route = "daily" ->
         [NoCall EXCEPT !.op = "getDailyData", !.symbol = r.params.symbol,
                        !.outputsize = OutputSizeOf(r.query)]
    [] OTHER ->
         [NoCall EXCEPT !.op = "getHistoricalData", !.symbol = r.params.symbol,
                        !.interval = IF r.query.interval.t = "undef" THEN Str("5min")
                                     ELSE r.query.interval,
                        !.startDate = r.query.start_date, !.endDate = r.query.end_date]

\* the last middleware has called next(): Express invokes the handler, which
\* reads its parameters and calls the fetch operation
InvokeHandler(i) ==
  /\ requests[i].stage = Len(Middlewares[requests[i].route]) + 1
  /\ requests[i].call.op = "none"
  /\ requests' = [requests EXCEPT ![i].call = HandlerCall(requests[i])]
  /\ UNCHANGED <<envApiKey, clock, stockStore, dailyStore, last, process>>

NextRoute ==
  \/ \E i \in DOMAIN requests : ValidateSymbol(i)
  \/ \E i \in DOMAIN requests : ValidateInterval(i)
  \/ \E i \in DOMAIN requests : ValidateDateRange(i)
  \/ \E i \in DOMAIN requests : ValidateOutputSize(i)
  \/ \E i \in DOMAIN requests : InvokeHandler(i)

SpecRoute == InitRoute /\ [][NextRoute]_vars

(* Properties of the validation layer, checked under SpecRoute *)

\* the parameter rules, on the parameters as the request carried them
PresentIn(v, allowed) == v.t = "undef" \/ (v.t = "str" /\ v.s \in allowed)
IsoOrAbsent(v) == v.t = "undef" \/ (v.t = "str" /\ IsISO8601(v.s))
EndBeforeStart(start, end) ==
  DateOf(start) # NaN /\ DateOf(end) # NaN /\ DateOf(end) < DateOf(start)
ObeysParameterRules(rec) ==
  /\ Len(rec.symbol) >= 1 /\ Len(rec.symbol) <= 10
  /\ PresentIn(rec.query.interval, {"1min", "5min", "15min", "30min", "60min"})
  /\ IsoOrAbsent(rec.query.startDate) /\ IsoOrAbsent(rec.query.endDate)
  /\ IsoOrAbsent(rec.query.start_date) /\ IsoOrAbsent(rec.query.end_date)
  /\ ~EndBeforeStart(rec.query.startDate, rec.query.endDate)
  /\ ~EndBeforeStart(rec.query.start_date, rec.query.end_date)

\* C15: a request whose parameters violate the parameter rules never reaches
\* a fetch operation: every request whose handler called one obeys the rules.
C15_InvalidRequestsRejected ==
  \A i \in DOMAIN requests :
    requests[i].call.op # "none" => ObeysParameterRules(requests[i].received)


(* Properties of the stored records, checked under Spec *)

\* the keys (symbol, dataType, granularity, timestamp) of the intraday
\* observations the store holds
IntradayKeysHeld(store) ==
  UNION {{<<store[i].metaData.symbol, store[i].metaData.dataType,
            store[i].metaData.interval, ts>> : ts \in DOMAIN store[i].timeSeries} :
         i \in DOMAIN store}

\* C16: a stored record is never deleted: a key the store holds before a
\* step, intraday or daily, is a key it holds after the step.
C16_RecordsNeverDeleted ==
  [][/\ IntradayKeysHeld(stockStore) \subseteq IntradayKeysHeld(stockStore')
     /\ DOMAIN dailyStore \subseteq DOMAIN dailyStore']_vars

----------------------------------------------------------------------------
(* Two requests handled concurrently: the handlers' writes to the store *)

\* a handler of GET /IBM/intraday?interval=5min or GET /IBM/daily before its
\* fetch: writes are the store operations it still has to issue, written
\* the ones it has built
Task(route, resp) ==
  [route |-> route, pc |-> "fetch", resp |-> resp, writes |-> <<>>, written |-> <<>>]

RaceTasks ==
  {Task("intraday", resp) :
     resp \in {Http200(IntradayBody(IntradayMeta("IBM", "2023-01-31 16:00:00", "5min", "compact"),
                                    OneSeries(IntradayKeys1))),
               Http200(IntradayBody(IntradayMeta("IBM", "2023-01-30 16:00:00", "5min", "Compact"),
                                    ObjOf(<< <<IntradayKeys1[1], BareEntry>>,
                                             <<IntradayKeys1[2], GoodEntry>> >>))),
               Response("ok", 500, "Internal Server Error", Null)}}
  \cup {Task("daily", Http200(DailyBody(DailyMeta("IBM", "2023-01-31"), ts))) :
          ts \in TimeSeriesOver(DailyKeys1, {GoodEntry})}

InitRace ==
  /\ envApiKey = "AVKEY1"
  /\ clock = 0
  /\ stockStore = <<>>
  /\ dailyStore = <<>>
  /\ last = Idle
  /\ requests \in {<<a, b>> : a \in RaceTasks, b \in RaceTasks}
  /\ process = NoProcess

\* the store operations a handler issues for the result of its fetch
WritesOf(route, svc, now) ==
  IF ~svc.ok THEN <<>>
  ELSE IF route = "intraday" THEN <<IntradayUpdate(svc.data, "IBM", "5min", now)>>
  ELSE DailyOperations("IBM", svc.data, svc.data.order, now)

\* the handler up to its await of the store: the fetch and the building of
\* the update document or of the bulk operations
HandlerFetch(i) ==
  /\ requests[i].pc = "fetch"
  /\ clock < MaxOps
  /\ \E svc \in {Fetched(getAlphaVantageApiKey(envApiKey),
                         IF requests[i].route = "intraday"
                           THEN IntradayFetch[envApiKey, "IBM", "5min", requests[i].resp, clock]
                           ELSE DailyFetch[envApiKey, "IBM", requests[i].resp, clock])} :
     \E writes \in {WritesOf(requests[i].route, svc, clock)} :
       requests' = [requests EXCEPT ![i].writes = writes, ![i].written = writes,
                                    ![i].pc = IF Len(writes) = 0 THEN "done" ELSE "upsert"]
  /\ clock' = clock + 1
  /\ UNCHANGED <<envApiKey, stockStore, dailyStore, last, process>>

\* findOneAndUpdate with upsert on a collection without a unique index on
\* the filter's fields: a matching document is updated atomically; when the
\* query matches none the insert follows as a separate write
UpsertMatch(i) ==
  /\ requests[i].route = "intraday" /\ requests[i].pc = "upsert"
  /\ IF \E k \in DOMAIN stockStore : IntradayFilter(stockStore[k], "IBM", "5min")
       THEN /\ stockStore' = FindOneAndUpdate(stockStore, "IBM", "5min", requests[i].writes[1])
            /\ requests' = [requests EXCEPT ![i].writes = <<>>, ![i].pc = "done"]
       ELSE /\ stockStore' = stockStore
            /\ requests' = [requests EXCEPT ![i].pc = "insert"]
  /\ UNCHANGED <<envApiKey, clock, dailyStore, last, process>>

UpsertInsert(i) ==
  /\ requests[i].route = "intraday" /\ requests[i].pc = "insert"
  /\ stockStore' = Append(stockStore, requests[i].writes[1])
  /\ requests' = [requests EXCEPT ![i].writes = <<>>, ![i].pc = "done"]
  /\ UNCHANGED <<envApiKey, clock, dailyStore, last, process>>

\* one updateOne of bulkWrite: the unique index on (symbol, date) makes the
\* upsert of one key atomic; the operations of a batch are applied one by one
UpsertDaily(i) ==
  /\ requests[i].route = "daily" /\ requests[i].pc = "upsert"
  /\ dailyStore' = ApplyOperations(dailyStore, <<Head(requests[i].writes)>>)
  /\ requests' = [requests EXCEPT ![i].writes = Tail(@),
                                  ![i].pc = IF Len(requests[i].writes) = 1 THEN "done" ELSE "upsert"]
  /\ UNCHANGED <<envApiKey, clock, stockStore, last, process>>

NextRace ==
  \/ \E i \in DOMAIN requests : HandlerFetch(i)
  \/ \E i \in DOMAIN requests : UpsertMatch(i)
  \/ \E i \in DOMAIN requests : UpsertInsert(i)
  \/ \E i \in DOMAIN requests : UpsertDaily(i)

SpecRace == InitRace /\ [][NextRace]_vars

(* Properties of concurrent upserts, checked under SpecRace *)

\* both requests have completed and both wrote under this route
BothWrote(route) ==
  \A i \in DOMAIN requests :
    /\ requests[i].route = route
    /\ requests[i].pc = "done" /\ Len(requests[i].written) > 0

\* the stored intraday documents of the key (IBM, intraday, 5min)
KeyDocuments == {k \in DOMAIN stockStore : IntradayFilter(stockStore[k], "IBM", "5min")}

\* the documents and records the requests of this route built
WrittenBy(route) ==
  UNION {{requests[i].written[n] : n \in DOMAIN requests[i].written} :
         i \in {i \in DOMAIN requests : requests[i].route = route}}

\* C17: when two concurrent requests upsert the same key, the store holds,
\* after both completed, exactly one record of that key; and at every moment
\* each stored record is the complete record one of the requests wrote.
C17_ConcurrentUpsertsLeaveOneRecord ==
  /\ \A k \in DOMAIN stockStore : stockStore[k] \in WrittenBy("intraday")
  /\ \A key \in DOMAIN dailyStore : dailyStore[key] \in WrittenBy("daily")
  /\ BothWrote("intraday") => Cardinality(KeyDocuments) = 1


(* Properties of the intraday fallback, checked under SpecNorm *)

\* C18: on the intraday path the fallback supplier is invoked only when the
\* upstream outcome is rate limited, empty or a 4xx, or when normalization
\* reports a schema mismatch.
C18_FallbackOnlyOnListedOutcomes ==
  (Performed("getIntradayData") /\ last.svc.sent /\ last.svc.mock)
    => \/ RateLimited(last.resp)
       \/ EmptyResponse(last.resp)
       \/ ClientError(last.resp)
       \/ SchemaMismatch(last.resp, "intradayMeta", "intradayTimeSeries")


(* Properties of the Normalizer's key handling, checked under SpecNorm *)

\* the value of the first spelling that is present in the metadata; the
\* default when neither is
FirstPresent(meta, numbered, bare, default) ==
  IF numbered \in DOMAIN meta.val THEN meta.val[numbered]
  ELSE IF bare \in DOMAIN meta.val THEN meta.val[bare]
  ELSE default

DailyFieldsResolved(meta, metaData, symbol) ==
  /\ metaData.information =
       FirstPresent(meta, "1. Information", "Information", Str("Daily Time Series"))
  /\ metaData.symbol = FirstPresent(meta, "2. Symbol", "Symbol", Str(symbol))
  /\ metaData.outputSize = FirstPresent(meta, "4. Output Size", "Output Size", Str("Compact"))
  /\ metaData.timeZone = FirstPresent(meta, "5. Time Zone", "Time Zone", Str("US/Eastern"))

IntradayFieldsResolved(meta, metaData) ==
  /\ metaData.information = FirstPresent(meta, "1. Information", "Information", Str(""))
  /\ metaData.symbol = FirstPresent(meta, "2. Symbol", "Symbol", Str(""))
  /\ metaData.interval = FirstPresent(meta, "4. Interval", "Interval", Str(""))
  /\ metaData.outputSize = FirstPresent(meta, "5. Output Size", "Output Size", Str("Compact"))
  /\ metaData.timeZone = FirstPresent(meta, "6. Time Zone", "Time Zone", Str("US/Eastern"))

\* C19: each canonical metadata field of a normalized series is the value of
\* the first of its spellings (numbered, then bare) that is present in the
\* payload, whatever that value; the default is used only when none is.
C19_FirstPresentSpellingWins ==
  /\ (WellFormedDaily /\ last.svc.ok)
       => DailyFieldsResolved(PayloadMeta(last.resp, "dailyMeta"),
                              last.svc.data.metaData, last.symbol)
  /\ (WellFormedIntraday /\ last.svc.ok)
       => IntradayFieldsResolved(PayloadMeta(last.resp, "intradayMeta"),
                                 last.svc.data.metaData)


\* the key names of the metadata section and of the time-series section
NamesMetadata(key) ==
  \/ Includes(ToLowerCase(key), "meta")
  \/ Includes(ToLowerCase(key), "information")
NamesTimeSeries(key, daily) ==
  \/ Includes(ToLowerCase(key), "time series")
  \/ Includes(ToLowerCase(key), "timeseries")
  \/ Includes(ToLowerCase(key), "time_series")
  \/ daily /\ Includes(ToLowerCase(key), "daily")

\* the first key, in iteration order, that names the section; NoKey if none
FirstMetadataKey(keys) ==
  IF \E i \in 1..Len(keys) : NamesMetadata(keys[i])
    THEN keys[CHOOSE i \in 1..Len(keys) :
                NamesMetadata(keys[i]) /\ \A j \in 1..(i - 1) : ~NamesMetadata(keys[j])]
    ELSE NoKey
FirstTimeSeriesKey(keys, daily) ==
  IF \E i \in 1..Len(keys) : NamesTimeSeries(keys[i], daily)
    THEN keys[CHOOSE i \in 1..Len(keys) :
                /\ NamesTimeSeries(keys[i], daily)
                /\ \A j \in 1..(i - 1) : ~NamesTimeSeries(keys[j], daily)]
    ELSE NoKey

\* the performed operation handed the body of its response to its normalizer
Normalized(op) ==
  /\ Performed(op) /\ last.svc.sent
  /\ Delivered(last.resp) /\ last.resp.status = 200
  /\ last.resp.data.t = "obj" /\ Len(last.resp.data.keys) > 0
  /\ ~Truthy(Get(last.resp.data, "Note")) /\ ~Truthy(Get(last.resp.data, "Error Message"))

\* C20: the metadata key a normalizer uses is the first payload key whose
\* lower-cased name contains "meta" or "information", the time-series key
\* the first that contains "time series", "timeseries" or "time_series" (or
\* "daily", in the daily normalizer).
C20_SectionKeysLocated ==
  /\ Normalized("getDailyData") =>
       /\ FindKey(last.resp.data.keys, "dailyMeta") = FirstMetadataKey(last.resp.data.keys)
       /\ FindKey(last.resp.data.keys, "dailyTimeSeries")
            = FirstTimeSeriesKey(last.resp.data.keys, TRUE)
  /\ (Normalized("getIntradayData") \/ Normalized("getHistoricalData")) =>
       /\ FindKey(last.resp.data.keys, "intradayMeta") = FirstMetadataKey(last.resp.data.keys)
       /\ FindKey(last.resp.data.keys, "intradayTimeSeries")
            = FirstTimeSeriesKey(last.resp.data.keys, FALSE)


(* Properties of the entries of a normalized series, checked under SpecNorm *)

\* the entry is an object: not null, not a string, not a number
ObjectEntry(series, k) == series.val[k].t = "obj"

\* the raw series without its entries that are no objects
WithoutNonObjects(series) ==
  Obj(SelectSeq(series.keys, LAMBDA k : ObjectEntry(series, k)),
      [k \in {k \in Range(series.keys) : ObjectEntry(series, k)} |-> series.val[k]])

HasNonObject(series) == \E k \in Range(series.keys) : ~ObjectEntry(series, k)

\* C21: an entry of the time series that is not an object is skipped: the
\* transformation succeeds, its output has no record for that entry, and the
\* records of the other entries are those of the series without it.
C21_NonObjectEntriesSkipped ==
  /\ WellFormedDaily =>
       /\ last.svc.ok
       /\ DOMAIN last.svc.data.timeSeries
            = {k \in Range(PayloadSeries(last.resp, "dailyTimeSeries").keys) :
                 ObjectEntry(PayloadSeries(last.resp, "dailyTimeSeries"), k)}
       /\ last.svc.data.timeSeries
            = DailyTimeSeries(WithoutNonObjects(PayloadSeries(last.resp, "dailyTimeSeries")))
  /\ WellFormedIntraday =>
       /\ last.svc.ok /\ ~last.svc.mock
       /\ DOMAIN last.svc.data.timeSeries
            = {k \in Range(PayloadSeries(last.resp, "intradayTimeSeries").keys) :
                 ObjectEntry(PayloadSeries(last.resp, "intradayTimeSeries"), k)}
       /\ last.svc.data.timeSeries
            = IntradayTimeSeries(WithoutNonObjects(PayloadSeries(last.resp, "intradayTimeSeries")))

C21_Witness ==
  /\ WellFormedIntraday
  /\ HasNonObject(PayloadSeries(last.resp, "intradayTimeSeries"))
  /\ Cardinality(DOMAIN last.svc.data.timeSeries) = 1


\* the accepted spellings of each canonical key of an intraday record
Spellings ==
  ("1. open" :> {"1. open", "open"}) @@ ("2. high" :> {"2. high", "high"})
  @@ ("3. low" :> {"3. low", "low"}) @@ ("4. close" :> {"4. close", "close"})
  @@ ("5. volume" :> {"5. volume", "volume"})

\* the strings the upstream entry carries for the canonical key
UpstreamStrings(values, key) ==
  {values.val[k] : k \in {k \in Spellings[key] \cap DOMAIN values.val : values.val[k].t = "str"}}

\* the record is the upstream entry under the canonical keys, values unchanged
CanonicalRecord(record, values) ==
  /\ DOMAIN record = DOMAIN Spellings
  /\ \A key \in DOMAIN Spellings :
       UpstreamStrings(values, key) # {} => record[key] \in UpstreamStrings(values, key)

C23_SymbolUppercaseTrimmed ==
  (last.phase = "done" /\ last.svc.ok) =>
    /\ last.svc.data.metaData.symbol.t = "str"
    /\ last.svc.data.metaData.symbol.s
         = ToUpperCase(Trim(last.svc.data.metaData.symbol.s))

----------------------------------------------------------------------------
(* The process: the handlers of logger.js and of the server bootstrap *)

\* process.exit(code), by the handler of this event
Exit(p, code, by) == [p EXCEPT !.exitCode = code, !.exitBy = by]

\* the 'close' event of the server: the callbacks given to server.close run
\* in the order of their registration, until one exits the process
RECURSIVE RunCallbacks(_, _)
RunCallbacks(p, callbacks) ==
  IF Len(callbacks) = 0 \/ p.exitCode # -1 THEN [p EXCEPT !.closeCallbacks = <<>>]
  ELSE IF Head(callbacks) = "exit" THEN RunCallbacks(Exit(p, 1, "unhandledRejection"), Tail(callbacks))
  ELSE RunCallbacks([p EXCEPT !.stopped = TRUE], Tail(callbacks))

\* server.close(callback): the server stops accepting connections and emits
\* 'close' once no connection is open
ServerClose(p, callback) ==
  IF p.connections = 0 THEN RunCallbacks(p, Append(p.closeCallbacks, callback))
  ELSE [p EXCEPT !.closeCallbacks = Append(@, callback)]

InitProcess ==
  /\ envApiKey = "AVKEY1"
  /\ clock = 0
  /\ stockStore = <<>>
  /\ dailyStore = <<>>
  /\ last = Idle
  /\ requests = <<>>
  /\ process \in {[NoProcess EXCEPT !.env = env, !.direct = direct, !.listening = FALSE] :
                    env \in {"development", "production", "test", ""}, direct \in BOOLEAN}

Running == process.exitCode = -1

\* StockApiServer.start(), called when the file is run directly: the
\* database connection, app.listen and the registration of the server's
\* handlers of the two events; a failure exits
ProcessStart(started) ==
  /\ Running /\ process.direct /\ ~process.listening
  /\ process' = IF started THEN [process EXCEPT !.listening = TRUE]
                ELSE Exit(process, 1, "start")
  /\ UNCHANGED <<envApiKey, clock, stockStore, dailyStore, last, requests>>

\* a client opens a connection; a closing server accepts none
Connect ==
  /\ Running /\ process.listening /\ Len(process.closeCallbacks) = 0
  /\ process.connections < MaxConnections
  /\ process' = [process EXCEPT !.connections = @ + 1]
  /\ UNCHANGED <<envApiKey, clock, stockStore, dailyStore, last, requests>>

\* a connection ends; the last one of a closing server lets it emit 'close'
Disconnect ==
  /\ Running /\ process.connections > 0
  /\ process' = IF process.connections = 1
                  THEN RunCallbacks([process EXCEPT !.connections = 0], process.closeCallbacks)
                  ELSE [process EXCEPT !.connections = @ - 1]
  /\ UNCHANGED <<envApiKey, clock, stockStore, dailyStore, last, requests>>

\* 'uncaughtException': the handler of logger.js, then the handler start()
\* registered
UncaughtException ==
  /\ Running /\ process.logged < MaxLogged
  /\ process' = IF process.env # "development" THEN Exit(process, 1, "uncaughtException")
                ELSE IF process.listening THEN Exit(process, 1, "uncaughtException")
                ELSE [process EXCEPT !.logged = @ + 1]
  /\ UNCHANGED <<envApiKey, clock, stockStore, dailyStore, last, requests>>

\* 'unhandledRejection': the handler of logger.js, then the handler start()
\* registered, which exits in the callback of server.close
UnhandledRejection ==
  /\ Running /\ process.logged < MaxLogged
  /\ process' = IF process.env # "development" THEN Exit(process, 1, "unhandledRejection")
                ELSE IF process.listening
                  THEN ServerClose([process EXCEPT !.logged = @ + 1], "exit")
                ELSE [process EXCEPT !.logged = @ + 1]
  /\ UNCHANGED <<envApiKey, clock, stockStore, dailyStore, last, requests>>

\* SIGTERM or SIGINT, handled when the file is run directly: shutdown awaits
\* stop(), which calls server.close and returns without waiting for its
\* callback, then exits with 0.  With no
\* open connection 'close' is emitted on the next tick, before the await
\* resumes; with an open connection it is not.
Shutdown ==
  /\ Running /\ process.direct
  /\ process' = IF process.listening
                  THEN Exit(ServerClose(process, "stopped"), 0, "signal")
                  ELSE Exit(process, 0, "signal")
  /\ UNCHANGED <<envApiKey, clock, stockStore, dailyStore, last, requests>>

NextProcess ==
  \/ \E started \in BOOLEAN : ProcessStart(started)
  \/ Connect
  \/ Disconnect
  \/ UncaughtException
  \/ UnhandledRejection
  \/ Shutdown

SpecProcess == InitProcess /\ [][NextProcess]_vars

(* Properties of the process, checked under SpecProcess *)

\* C24: in development mode an uncaught exception or an unhandled rejection
\* does not end the process: no exit with code 1 is caused by one.
C24_DevelopmentKeepsRunning ==
  process.env = "development" =>
    ~(process.exitCode = 1 /\ process.exitBy \in {"uncaughtException", "unhandledRejection"})

\* C28: on SIGTERM or SIGINT the process exits with code 0 only after the
\* server it runs has finished closing.
C28_ExitAfterServerStopped ==
  (process.exitBy = "signal" /\ process.exitCode = 0 /\ process.listening) => process.stopped


----------------------------------------------------------------------------
(* Properties of the daily archive, checked under Spec *)

\* the price and volume fields of a stored daily record and of a normalized
\* daily point
PriceFields == {"open", "high", "low", "close", "volume", "adjustedClose"}

\* C25: after a successful daily fetch whose series the store accepts, the
\* record stored for each (symbol, date) of the series has the open, high,
\* low, close, volume and adjustedClose of the normalized point returned to
\* the caller for that date.
C25_StoredEqualsReturned ==
  [][DailyUpserted =>
       \A k \in ParsableKeys(last'.svc.data.timeSeries) :
         \A field \in PriceFields :
           dailyStore'[DailyKey(last'.symbol, k)][field]
             = last'.out.data.timeSeries[k][field]]_vars


(* Properties of the historical route, checked under SpecNorm *)

\* the historical fetch of a configured service yields no data or no time
\* series: the upstream answered 200 with an empty body or with a body that
\* lacks the metadata or the time-series section
NoHistoricalData ==
  /\ Performed("ctlHistorical") /\ last.apiKey # ""
  /\ \/ EmptyResponse(last.resp)
     \/ SchemaMismatch(last.resp, "intradayMeta", "intradayTimeSeries")

\* C27: when the historical fetch yields no data or no time series the
\* caller receives status 404 with the message "No historical data found
\* for the given parameters".
C27_NoHistoricalDataIs404 ==
  NoHistoricalData =>
    /\ last.out.status = 404
    /\ last.out.message = "No historical data found for the given parameters"


----------------------------------------------------------------------------
(* Concurrent calls of saveStockData: each await of the method is a point  *)
(* at which another call may run                                           *)

\* a call of saveStockData("IBM", "5min") whose fetch will be answered resp;
\* latestData holds the document findOne returned, if any
SaveCall(resp) ==
  [pc |-> "findOne", resp |-> resp, latestData |-> <<>>, stockData |-> <<>>, result |-> ""]

SaveResponses ==
  {Http200(IntradayBody(IntradayMeta("IBM", "2023-01-31 16:00:00", "5min", "compact"),
                        OneSeries(IntradayKeys1))),
   Http200(IntradayBody(IntradayMeta("IBM", "2023-01-30 16:00:00", "5min", "Compact"),
                        ObjOf(<< <<IntradayKeys1[1], BareEntry>>,
                                 <<IntradayKeys1[2], GoodEntry>> >>))),
   Response("ok", 500, "Internal Server Error", Null)}

\* the documents an earlier, completed call may have left in the collection
SavedBefore ==
  {<<>>} \cup
  {<<NewStockDocument(IntradayFetch["AVKEY1", "IBM", "5min", resp, 0].data, 0)>> :
     resp \in {r \in SaveResponses : IntradayFetch["AVKEY1", "IBM", "5min", r, 0].ok}}

InitSave ==
  /\ envApiKey = "AVKEY1"
  /\ clock = 0
  /\ stockStore \in SavedBefore
  /\ dailyStore = <<>>
  /\ last = Idle
  /\ requests \in {<<SaveCall(a), SaveCall(b)>> : a \in SaveResponses, b \in SaveResponses}
  /\ process = NoProcess

\* await StockData.findOne({...}).sort({"metaData.lastRefreshed": -1})
SaveFindOne(i) ==
  /\ requests[i].pc = "findOne"
  /\ \E k \in OrNone(LatestIndexes(stockStore, "IBM", "5min")) :
       requests' = [requests EXCEPT ![i].latestData = IF k = 0 THEN <<>> ELSE <<stockStore[k]>>,
                                    ![i].pc = "fetch"]
  /\ UNCHANGED <<envApiKey, clock, stockStore, dailyStore, last, process>>

\* await this.getIntradayData(symbol, interval), the freshness test and the
\* construction of the new document
SaveFetch(i) ==
  /\ requests[i].pc = "fetch"
  /\ clock < MaxOps
  /\ \E rawData \in {IntradayFetch[envApiKey, "IBM", "5min", requests[i].resp, clock]} :
       requests' =
         IF ~rawData.ok
           THEN [requests EXCEPT ![i].pc = "done", ![i].result = "failed"]
         ELSE IF Len(requests[i].latestData) > 0 /\ IsUpToDate(requests[i].latestData[1], rawData.data)
           THEN [requests EXCEPT ![i].pc = "done", ![i].result = "upToDate"]
         ELSE [requests EXCEPT ![i].pc = "save",
                               ![i].stockData = <<NewStockDocument(rawData.data, clock)>>]
  /\ clock' = clock + 1
  /\ UNCHANGED <<envApiKey, stockStore, dailyStore, last, process>>

\* await stockData.save(): validation, then the insert of a new document
SaveInsert(i) ==
  /\ requests[i].pc = "save"
  /\ IF SchemaValid(requests[i].stockData[1])
       THEN /\ stockStore' = Append(stockStore, requests[i].stockData[1])
            /\ requests' = [requests EXCEPT ![i].pc = "done", ![i].result = "saved"]
       ELSE /\ stockStore' = stockStore
            /\ requests' = [requests EXCEPT ![i].pc = "done", ![i].result = "failed"]
  /\ UNCHANGED <<envApiKey, clock, dailyStore, last, process>>

NextSave ==
  \/ \E i \in DOMAIN requests : SaveFindOne(i)
  \/ \E i \in DOMAIN requests : SaveFetch(i)
  \/ \E i \in DOMAIN requests : SaveInsert(i)

SpecSave == InitSave /\ [][NextSave]_vars

(* Properties of concurrent saveStockData calls, checked under SpecSave *)

\* two stored documents of the same symbol, interval and lastRefreshed
SameSeries(a, b) ==
  /\ a.metaData.symbol = b.metaData.symbol
  /\ a.metaData.interval = b.metaData.interval
  /\ a.metaData.lastRefreshed = b.metaData.lastRefreshed

\* C26: when the concurrent calls of saveStockData for one symbol and
\* interval have all completed, the store holds at most one record for each
\* (symbol, interval, lastRefreshed).
C26_OneRecordPerRefresh ==
  (\A i \in DOMAIN requests : requests[i].pc = "done") =>
    \A a, b \in DOMAIN stockStore :
      SameSeries(stockStore[a], stockStore[b]) => a = b

====
